---------------------------- MODULE Spec2Model ----------------------------
(***************************************************************************)
(* State-machine model of the WordPress site analyzer                      *)
(* (src/services/wordpress_analyzer.py) and of the route that runs it      *)
(* under the analysis timeout (src/routes/wordpress.py).                   *)
(*                                                                         *)
(* Every `await` of the source is a suspension point: an action of the     *)
(* model runs one task from the completion of the await it is suspended at *)
(* to its next await (or to its end).                                      *)
(***************************************************************************)
EXTENDS Naturals, Sequences, FiniteSets, Bags

(***************************************************************************)
(* Bounds of the input universe.                                           *)
(***************************************************************************)
\* greatest number of <meta name="generator"> tags of a homepage
MaxGen == 2
\* greatest number of ver= (and of /wp-content/themes/<slug>/) occurrences
MaxOcc == 3

(***************************************************************************)
(* The homepage.  The raw HTML and the parsed DOM are modelled by what the *)
(* extractors read from them, each list in document order.                 *)
(***************************************************************************)
Versions == {"6.4", "5.9"}
ThemeSlugs == {"astra", "hello-elementor"}

\* str.lower() on the words of a generator tag's content attribute, split
\* at whitespace, and on the extensions of filenames
Lower(w) ==
    CASE w = "WordPress" -> "wordpress"
      [] w = "Elementor" -> "elementor"
      [] w = ".PDF" -> ".pdf"
      [] w = ".DOCX" -> ".docx"
      [] OTHER -> w

\* a token that [\d.]+ matches
IsVersionToken(w) == w \in Versions

\* content attributes of generator tags
GenContents ==
    { <<"WordPress", "6.4">>, <<"wordpress", "5.9">>, <<"WordPress">>,
      <<"Elementor", "5.9">> }

\* a <meta name="generator"> tag: has = the tag carries a content attribute
GenTags ==
    { [has |-> TRUE, content |-> c] : c \in GenContents }
        \cup { [has |-> FALSE, content |-> <<>>] }

SeqsUpTo(S, n) == UNION { [1..k -> S] : k \in 0..n }

\* tag.get('content', '')
GetContent(tag) == IF tag.has THEN tag.content ELSE <<>>

NoTag == <<>>

\* soup.find('meta', attrs={'name': 'generator'}): the first such tag, as a
\* list of at most one element
FindGenerator(h) == IF h.gens = <<>> THEN NoTag ELSE <<h.gens[1]>>

\* 'wordpress' in content.lower()
ContainsWordpress(content) ==
    \E i \in DOMAIN content : Lower(content[i]) = "wordpress"

\* re.search(r'WordPress\s+([\d.]+)', content, re.IGNORECASE): group 1 of
\* the leftmost match, "none" without a match
SearchWordPressVersion(content) ==
    LET hits == { i \in 1..(Len(content) - 1) :
                    /\ Lower(content[i]) = "wordpress"
                    /\ IsVersionToken(content[i + 1]) }
    IN  IF hits = {} THEN "none"
        ELSE content[(CHOOSE i \in hits : \A j \in hits : i <= j) + 1]

(***************************************************************************)
(* collections.Counter(matches).most_common(1)                             *)
(***************************************************************************)
Count(seq, x) == Cardinality({ i \in DOMAIN seq : seq[i] = x })

\* the keys of the Counter, in insertion order (first occurrence)
RECURSIVE CounterKeys(_)
CounterKeys(seq) ==
    IF seq = <<>> THEN <<>>
    ELSE LET rest == CounterKeys(SubSeq(seq, 1, Len(seq) - 1))
             last == seq[Len(seq)]
         IN  IF \E i \in DOMAIN rest : rest[i] = last
             THEN rest ELSE Append(rest, last)

\* max(items, key=count) keeps the first item with the greatest count
RECURSIVE MaxFirst(_, _, _)
MaxFirst(keys, seq, best) ==
    IF keys = <<>> THEN best
    ELSE MaxFirst(Tail(keys), seq,
                  IF Count(seq, Head(keys)) > Count(seq, best)
                  THEN Head(keys) ELSE best)

\* a max() that keeps the last item with the greatest count
RECURSIVE MaxLast(_, _, _)
MaxLast(keys, seq, best) ==
    IF keys = <<>> THEN best
    ELSE MaxLast(Tail(keys), seq,
                 IF Count(seq, Head(keys)) >= Count(seq, best)
                 THEN Head(keys) ELSE best)

MostCommonLast(seq) ==
    LET keys == CounterKeys(seq) IN MaxLast(Tail(keys), seq, Head(keys))

\* Counter(matches).most_common(1)[0][0], for a non-empty list of matches
MostCommon(seq) ==
    LET keys == CounterKeys(seq) IN MaxFirst(Tail(keys), seq, Head(keys))

(***************************************************************************)
(* Plugin slugs, and the tables of _detect_plugins.                        *)
(***************************************************************************)
\* common_plugins (Method 9); the model probes the first two entries, the
\* others are probed the same way
common_plugins ==
    << "wordpress-seo", "akismet", "jetpack", "contact-form-7", "woocommerce",
       "elementor", "wpforms-lite", "wordfence", "wp-super-cache",
       "classic-editor", "duplicate-post", "google-analytics-for-wordpress",
       "all-in-one-seo-pack", "wp-mail-smtp", "updraftplus", "wp-optimize",
       "smush", "really-simple-ssl", "redirection", "wpforms", "sucuri-scanner" >>

CommonChecked == SubSeq(common_plugins, 1, 2)

\* slugs of /wp-content/plugins/<slug> references of a homepage: two plugin
\* directories, a single-file plugin and a directory of one letter
PathSlugs == {"akismet", "my-plugin", "hello.php", "x"}
\* slugs that the comment regex extracts
CommentSlugs == {"rocket", "akismet", "v20", "wordpress-seo"}

\* plugin_indicators (Method 6), by the indicators a homepage of the model
\* can contain
plugin_indicators ==
    [yoast |-> "wordpress-seo", elementor |-> "elementor", akismet |-> "akismet"]

IndicatorKeys == DOMAIN plugin_indicators

AllSlugs ==
    PathSlugs \cup CommentSlugs \cup { CommonChecked[i] : i \in DOMAIN CommonChecked }
        \cup { plugin_indicators[k] : k \in IndicatorKeys }

\* len(slug)
SlugLen(slug) ==
    CASE slug = "x" -> 1
      [] slug = "v20" -> 3
      [] slug = "hello.php" -> 9
      [] slug = "rocket" -> 6
      [] slug = "akismet" -> 7
      [] slug = "my-plugin" -> 9
      [] slug = "elementor" -> 9
      [] slug = "wordpress-seo" -> 13
      [] OTHER -> 4

\* re.match(r'^[a-z0-9\-_]+$', slug, re.IGNORECASE): every slug of the
\* model but hello.php is made of letters, digits and hyphens
MatchesSlugPattern(slug) == slug \in AllSlugs \ {"hello.php"}

\* indicator in text.lower(), for the words a homepage of the model holds
WordContains(word, indicator) ==
    \/ Lower(word) = indicator
    \/ word = "hello-elementor" /\ indicator = "elementor"

\* plugin_slug.replace('-', ' ').replace('_', ' ').title()
PluginName(slug) ==
    CASE slug = "akismet" -> "Akismet"
      [] slug = "my-plugin" -> "My Plugin"
      [] slug = "rocket" -> "Rocket"
      [] slug = "wordpress-seo" -> "Wordpress Seo"
      [] slug = "elementor" -> "Elementor"
      [] OTHER -> slug

(***************************************************************************)
(* Probes.  A probe is one request on the scan's HTTP client.              *)
(***************************************************************************)
Idle == [st |-> "idle", status |-> 0, body |-> "none"]
Flight == [st |-> "flight", status |-> 0, body |-> "none"]
\* the server answered
Answered(s, b) == [st |-> "answered", status |-> s, body |-> b]
\* the client raised (connection error, request timeout)
Failed == [st |-> "failed", status |-> 0, body |-> "none"]
\* CancelledError was thrown at the await of the request
Cancelled == [st |-> "cancelled", status |-> 0, body |-> "none"]

Settled(p) == p.st \in {"answered", "failed", "cancelled"}

\* a request that is in flight when the task awaiting it is cancelled
CancelProbe(p) == IF p.st = "flight" THEN Cancelled ELSE p

(***************************************************************************)
(* The target.  `server` holds, for each request of a scan, the answers    *)
(* <<status, body>> the target may give; any request may also fail.        *)
(***************************************************************************)
\* body of /feed/ and of /readme.html: the version the method's regex finds
VersionBodies == Versions \cup {"none"}

\* first 2000 characters of style.css, by the header fields they hold
StyleBodies == {"none", "Version: 1.2", "Author: Jo", "Version: 1.2 Author: Jo"}

\* body of /wp-json/, by what response.json() makes of it: a JSON object
\* with the key ("namespaces", "authentication"), another JSON object
\* ("object"), a JSON array that holds the string 'namespaces' ("array"), a
\* JSON string that contains the word 'authentication' ("string"), a JSON
\* number ("number"), or no JSON at all
WpJsonBodies ==
    {"namespaces", "authentication", "object", "array", "string", "number",
     "not json"}

\* `'namespaces' in data or 'authentication' in data`, lines 107-108: a key
\* test on a dict, an element test on a list, a substring test on a str, a
\* TypeError on a number; response.json() raises on what is no JSON
InData(body) ==
    CASE body \in {"namespaces", "authentication"} -> "true"
      [] body = "object" -> "false"
      [] body \in {"array", "string"} -> "true"
      [] OTHER -> "raises"

\* first 3000 characters of a plugin's readme.txt: a readme, the HTML page
\* <html><body>Page not found on this site</body></html>, a text of less
\* than 10 characters
ReadmeBodies == {"Stable tag: 2.1 A spam filter.", "<html>", "short"}

\* a target that may give any answer of the model
AnyServer ==
    [ home    |-> {200, 404, 500},
      wpjson  |-> {200, 404} \X WpJsonBodies,
      file    |-> {200, 302, 403, 404},
      feed    |-> {200, 404} \X VersionBodies,
      readme  |-> {200, 404} \X VersionBodies,
      shot    |-> {200, 404},
      style   |-> {200, 404} \X StyleBodies,
      plugdir |-> {200, 403, 404},
      preadme |-> ({200} \X ReadmeBodies)
                      \cup { <<404, "Stable tag: 2.1 A spam filter.">> } ]

\* a target that gives each request either its expected answer or a 404;
\* its /wp-json/ may also answer a JSON string
PlainServer ==
    [ home    |-> {200, 404, 500},
      wpjson  |-> {<<200, "namespaces">>, <<200, "string">>, <<404, "not json">>},
      file    |-> {200, 404},
      feed    |-> {<<200, "6.4">>, <<404, "none">>},
      readme  |-> {<<200, "5.9">>, <<404, "none">>},
      shot    |-> {200, 404},
      style   |-> {<<200, "Version: 1.2 Author: Jo">>, <<404, "none">>},
      plugdir |-> {200, 404},
      preadme |-> {<<200, "Stable tag: 2.1 A spam filter.">>, <<404, "<html>">>} ]

(***************************************************************************)
(* Values of schemas.py                                                    *)
(***************************************************************************)
\* Optional[T]: None is the empty list, a value x is the list <<x>>
None == <<>>
Some(x) == <<x>>

\* schemas.WordPressVersion
WordPressVersion(v, src) == Some([version |-> v, detected_from |-> src])

\* an absolute URL below the target: urljoin(url, path)
NoUrl == [dir |-> "none", slug |-> "none", file |-> "none"]
UrlJoin(dir, slug, file) == [dir |-> dir, slug |-> slug, file |-> file]

\* slug.replace('-', ' ').title()
DisplayName(slug) ==
    CASE slug = "astra" -> "Astra"
      [] slug = "hello-elementor" -> "Hello Elementor"
      [] OTHER -> slug

\* schemas.ThemeInfo(): every field None
EmptyThemeInfo ==
    [slug |-> "none", name |-> "none", template_url |-> NoUrl,
     screenshot_url |-> NoUrl, version |-> "none", author |-> "none"]

\* re.search(r'Version:\s*([\d.]+)', content): group 1, "none" without a match
StyleVersion(body) ==
    IF body \in {"Version: 1.2", "Version: 1.2 Author: Jo"} THEN "1.2" ELSE "none"

\* re.search(r'Author:\s*([^\n]+)', content): group 1, "none" without a match
StyleAuthor(body) ==
    IF body \in {"Author: Jo", "Version: 1.2 Author: Jo"} THEN "Jo" ELSE "none"

\* schemas.PluginInfo(name=...); slug is the slug the entry was made for
\* (PluginInfo itself has no such field)
NewPluginInfo(slug) ==
    [slug |-> slug, name |-> PluginName(slug), version |-> "none",
     description |-> "none"]

\* a fetch_plugin_info that reads an HTML page as a readme
StartsWithHtmlNever(body) == FALSE

\* content.strip().lower().startswith(('<!doctype', '<html'))
StartsWithHtml(body) == body = "<html>"

\* re.search(r'Stable tag:\s*([\d.]+)', content, re.IGNORECASE)
StableTag(body) == IF body = "Stable tag: 2.1 A spam filter." THEN "2.1" ELSE "none"

\* the first of desc_patterns whose group 1, tags stripped and whitespace
\* collapsed, is longer than 10 characters
ReadmeDescription(body) ==
    CASE body = "Stable tag: 2.1 A spam filter." -> body
      [] body = "<html>" -> "Page not found on this site"
      [] OTHER -> "none"

\* schemas.SiteMetadata(), by the fields the model follows
EmptyMetadata == [title |-> "none", generator |-> None]

\* schemas.WordPressSiteInfo(url=url, is_wordpress=False)
NewSiteInfo ==
    [is_wordpress |-> FALSE, wordpress_version |-> None, theme |-> None,
     plugins |-> EmptyBag, metadata |-> None]

VARIABLES
    html,           \* the homepage the target serves
    server,         \* the answers the target may give
    deep_scan,      \* the deep_scan argument of the scan
    served,         \* what an earlier scan of the same URL was answered
    vpc,            \* _detect_wordpress_version: where the task is
    vres,           \* _detect_wordpress_version: its return value
    vnet,           \* _detect_wordpress_version: its requests
    tpc,            \* _detect_theme: where the task is
    tres,           \* _detect_theme: theme_info, then the return value
    tnet,           \* _detect_theme: its requests
    ppc,            \* _detect_plugins: where the task is
    detected_slugs, \* _detect_plugins: detected_slugs
    to_verify,      \* _detect_plugins: comment_slugs_to_verify
    pres,           \* _detect_plugins: its return value
    pnet,           \* _detect_plugins: its requests
    scanPc,         \* _run_analysis / analyze: where the task is
    result,         \* analyze: result
    outcome,        \* _run_analysis: how the task ended
    cancel_requested, \* the gather of analyze was cancelled
    snet,           \* analyze and _is_wordpress: their requests
    client,         \* the analyzer's httpx.AsyncClient
    routePc,        \* analyze_wordpress_site: where the handler is
    response,       \* analyze_wordpress_site: the HTTP response
    timedOut,       \* the timer of asyncio.wait_for has fired
    endpoint,       \* summarize: the batch endpoint that was called
    inputs,         \* summarize: files or urls, with what the world answers
    openrouter_api_key, \* settings.openrouter_api_key is set
    responses,      \* summarize: the tuples the gather has so far
    batch_results,  \* summarize: results
    batch_errors,   \* summarize: errors
    batch_response, \* summarize: the HTTP response
    batchPc,        \* summarize: where the handler is
    jobs,           \* the temp file operations that are run, in order
    job,            \* the operation that is running
    jobPc,          \* where the running operation is
    job_exit,       \* how the operations before it ended
    tmp_file_path,  \* tmp_file_path, video_path of process_video
    audio_path,     \* audio_path of process_video
    disk            \* the files in the temp directory

batchVars == <<endpoint, inputs, openrouter_api_key, responses,
               batch_results, batch_errors, batch_response, batchPc>>
tempVars == <<jobs, job, jobPc, job_exit, tmp_file_path, audio_path, disk>>

\* what a scan works on and leaves as it is: its target, its arguments and
\* the state of the other endpoints
envVars == <<html, server, deep_scan, served, batchVars, tempVars>>
versionVars == <<vpc, vres, vnet>>
themeVars == <<tpc, tres, tnet>>
pluginVars == <<ppc, detected_slugs, to_verify, pres, pnet>>
scanVars == <<scanPc, result, outcome, cancel_requested, snet, client>>
routeVars == <<routePc, response, timedOut>>

\* the state of the WordPress endpoint
wpVars == <<html, server, deep_scan, served, versionVars, themeVars,
            pluginVars, scanVars, routeVars>>

vars == <<envVars, versionVars, themeVars, pluginVars, scanVars, routeVars>>

(***************************************************************************)
(* _detect_wordpress_version.  A Step is what the task does to its own     *)
(* variables from one suspension point to the next.                        *)
(***************************************************************************)
\* Method 1: the version of the generator tag, "none" without a match
MetaGeneratorVersion(h) ==
    LET generator == FindGenerator(h)
    IN  IF generator = NoTag THEN "none"
        ELSE SearchWordPressVersion(GetContent(generator[1]))

\* Methods 2 and 3 without their test of the status code
ProbeVersionAnyStatus(p) ==
    IF p.st = "answered" THEN p.body ELSE "none"

\* Methods 2 and 3: the version found in a settled GET, "none" when the
\* request raised, was cancelled, answered another status or has no match
ProbeVersion(p) ==
    IF p.st = "answered" /\ p.status = 200 THEN p.body ELSE "none"

\* Method 4: the most frequent ver= value of the homepage
AssetVersion(h) == IF h.vers = <<>> THEN "none" ELSE MostCommon(h.vers)

\* a Method 1 without its return: the version is kept and the feed is
\* requested all the same
VersionStartFallsThrough ==
    LET v == MetaGeneratorVersion(html)
       IN  /\ vres' = IF v # "none" THEN WordPressVersion(v, "meta_generator")
                      ELSE vres
           /\ vnet' = [vnet EXCEPT !.feed = Flight]
           /\ vpc' = "feed"

\* lines 137-153: Method 1 matched and the detector returns before any
\* request, or GET /feed/ is issued
VersionStartStep ==
    LET v == MetaGeneratorVersion(html)
       IN  IF v # "none"
           THEN /\ vres' = WordPressVersion(v, "meta_generator")
                /\ vpc' = "done"
                /\ vnet' = vnet
           ELSE /\ vnet' = [vnet EXCEPT !.feed = Flight]
                /\ vpc' = "feed"
                /\ vres' = vres

\* the continuation after the await of GET /feed/ (lines 154-166)
VersionAfterFeed(p) ==
    LET v == ProbeVersion(p)
    IN  IF v # "none"
        THEN /\ vres' = WordPressVersion(v, "rss_feed")
             /\ vpc' = "done"
             /\ vnet' = [vnet EXCEPT !.feed = p]
        ELSE /\ vnet' = [vnet EXCEPT !.feed = p, !.readme = Flight]
             /\ vpc' = "readme"
             /\ vres' = vres

\* the continuation after the await of GET /readme.html (lines 167-187)
VersionAfterReadme(p) ==
    LET v == ProbeVersion(p)
        a == AssetVersion(html)
    IN  /\ vnet' = [vnet EXCEPT !.readme = p]
        /\ vpc' = "done"
        /\ vres' = IF v # "none" THEN WordPressVersion(v, "readme_html")
                   ELSE IF a # "none" THEN WordPressVersion(a, "asset_version")
                   ELSE None

\* the task is cancelled while it awaits a request: the bare except around
\* the request catches the CancelledError and the detector carries on
VersionCancelStep ==
    /\ vpc \in {"feed", "readme"}
    /\ IF vpc = "feed" THEN VersionAfterFeed(Cancelled)
       ELSE VersionAfterReadme(Cancelled)

VersionStart ==
    /\ vpc = "start"
    /\ VersionStartStep
    /\ UNCHANGED <<envVars, themeVars, pluginVars, scanVars, routeVars>>

VersionFeedAnswers ==
    /\ vpc = "feed"
    /\ \E r \in server.feed : VersionAfterFeed(Answered(r[1], r[2]))
    /\ UNCHANGED <<envVars, themeVars, pluginVars, scanVars, routeVars>>

VersionFeedFails ==
    /\ vpc = "feed"
    /\ VersionAfterFeed(Failed)
    /\ UNCHANGED <<envVars, themeVars, pluginVars, scanVars, routeVars>>

VersionReadmeAnswers ==
    /\ vpc = "readme"
    /\ \E r \in server.readme : VersionAfterReadme(Answered(r[1], r[2]))
    /\ UNCHANGED <<envVars, themeVars, pluginVars, scanVars, routeVars>>

VersionReadmeFails ==
    /\ vpc = "readme"
    /\ VersionAfterReadme(Failed)
    /\ UNCHANGED <<envVars, themeVars, pluginVars, scanVars, routeVars>>

\* the detector is run alone and its task is cancelled
VersionCancelled ==
    /\ scanPc = "off"
    /\ VersionCancelStep
    /\ UNCHANGED <<envVars, themeVars, pluginVars, scanVars, routeVars>>

(***************************************************************************)
(* _detect_theme                                                           *)
(***************************************************************************)
\* the active theme: most_common(1) of the theme_pattern matches
ThemeSlug(h) == MostCommon(h.themes)

\* fetch_screenshot: the screenshot URL when the HEAD answers 200, else None
FetchScreenshot(p, slug) ==
    IF p.st = "answered" /\ p.status = 200
    THEN UrlJoin("/wp-content/themes/", slug, "screenshot.png") ELSE NoUrl

\* a fetch_style without its test of the status code
FetchStyleAnyStatus(p) ==
    IF p.st = "answered"
    THEN <<StyleVersion(p.body), StyleAuthor(p.body)>> ELSE <<"none", "none">>

\* fetch_style: (version, author) of a 200 answer, else (None, None)
FetchStyle(p) ==
    IF p.st = "answered" /\ p.status = 200
    THEN <<StyleVersion(p.body), StyleAuthor(p.body)>> ELSE <<"none", "none">>

\* lines 196-242: no match and the detector returns None before any
\* request; otherwise it fills slug, name and template URL and awaits the
\* gather of both fetches
ThemeStartStep ==
    IF html.themes = <<>>
       THEN /\ tpc' = "done"
            /\ tres' = None
            /\ tnet' = tnet
       ELSE LET theme_slug == ThemeSlug(html)
            IN  /\ tpc' = "gather"
                /\ tres' = Some([EmptyThemeInfo EXCEPT
                              !.slug = theme_slug,
                              !.name = DisplayName(theme_slug),
                              !.template_url =
                                  UrlJoin("/wp-content/themes/", theme_slug, "")])
                /\ tnet' = [tnet EXCEPT !.shot = Flight, !.style = Flight]

\* the task is cancelled while it awaits the gather: both fetches catch the
\* CancelledError and return, the gather then raises it in _detect_theme,
\* which has no handler around the await
ThemeCancelStep ==
    /\ tpc = "gather"
    /\ tpc' = "cancelled"
    /\ tres' = None
    /\ tnet' = [tnet EXCEPT !.shot = CancelProbe(@), !.style = CancelProbe(@)]

ThemeStart ==
    /\ tpc = "start"
    /\ ThemeStartStep
    /\ UNCHANGED <<envVars, versionVars, pluginVars, scanVars, routeVars>>

ThemeScreenshotAnswers ==
    /\ tnet.shot.st = "flight"
    /\ \E s \in server.shot : tnet' = [tnet EXCEPT !.shot = Answered(s, "none")]
    /\ UNCHANGED <<tpc, tres>>
    /\ UNCHANGED <<envVars, versionVars, pluginVars, scanVars, routeVars>>

ThemeScreenshotFails ==
    /\ tnet.shot.st = "flight"
    /\ tnet' = [tnet EXCEPT !.shot = Failed]
    /\ UNCHANGED <<tpc, tres>>
    /\ UNCHANGED <<envVars, versionVars, pluginVars, scanVars, routeVars>>

ThemeStyleAnswers ==
    /\ tnet.style.st = "flight"
    /\ \E r \in server.style : tnet' = [tnet EXCEPT !.style = Answered(r[1], r[2])]
    /\ UNCHANGED <<tpc, tres>>
    /\ UNCHANGED <<envVars, versionVars, pluginVars, scanVars, routeVars>>

ThemeStyleFails ==
    /\ tnet.style.st = "flight"
    /\ tnet' = [tnet EXCEPT !.style = Failed]
    /\ UNCHANGED <<tpc, tres>>
    /\ UNCHANGED <<envVars, versionVars, pluginVars, scanVars, routeVars>>

\* the detector returns when the first of its two fetches is complete
ThemeJoinFirstCompleted ==
    /\ tpc = "gather"
    /\ Settled(tnet.shot) \/ Settled(tnet.style)
    /\ LET theme_info == tres[1]
           screenshot_result == FetchScreenshot(tnet.shot, theme_info.slug)
           style_result == FetchStyle(tnet.style)
       IN  tres' = Some([theme_info EXCEPT
                       !.screenshot_url = screenshot_result,
                       !.version = style_result[1],
                       !.author = style_result[2]])
    /\ tpc' = "done"
    /\ UNCHANGED tnet
    /\ UNCHANGED <<envVars, versionVars, pluginVars, scanVars, routeVars>>

\* the gather of both fetches is complete: lines 244-252
ThemeJoin ==
    /\ tpc = "gather"
    /\ Settled(tnet.shot) /\ Settled(tnet.style)
    /\ LET theme_info == tres[1]
           screenshot_result == FetchScreenshot(tnet.shot, theme_info.slug)
           style_result == FetchStyle(tnet.style)
       IN  tres' = Some([theme_info EXCEPT
                       !.screenshot_url = screenshot_result,
                       !.version = style_result[1],
                       !.author = style_result[2]])
    /\ tpc' = "done"
    /\ UNCHANGED tnet
    /\ UNCHANGED <<envVars, versionVars, pluginVars, scanVars, routeVars>>

\* the detector is run alone and its task is cancelled
ThemeCancelled ==
    /\ scanPc = "off"
    /\ ThemeCancelStep
    /\ UNCHANGED <<envVars, versionVars, pluginVars, scanVars, routeVars>>

(***************************************************************************)
(* _detect_plugins                                                         *)
(***************************************************************************)
\* greatest number of comments of a homepage that yield a candidate slug
MaxComments == 2
\* greatest number of /wp-content/plugins/<slug> paths of a homepage
MaxPlug == 2

Range(seq) == { seq[i] : i \in DOMAIN seq }

\* the words of the raw HTML that the substring searches can hit
HtmlWords(h) ==
    UNION { Range(GetContent(h.gens[i])) : i \in DOMAIN h.gens }
        \cup Range(h.themes) \cup Range(h.plugins) \cup Range(h.comments)
        \cup h.text

\* indicator in html_lower
InHtmlLower(h, indicator) == \E w \in HtmlWords(h) : WordContains(w, indicator)

\* detected_slugs and the lists made from it are followed as bags: the
\* number of times each element is held, whatever the order

\* an add that does not look whether the slug is already held
AddAppend(detected, slug) == detected (+) SetToBag({slug})

\* `if slug not in detected_slugs: detected_slugs.add(slug)`, and
\* detected_slugs.add(slug) on a set: a slug already held is not added
Add(detected, slug) ==
    IF BagIn(slug, detected) THEN detected ELSE detected (+) SetToBag({slug})

\* the adds of a loop over a list of slugs
RECURSIVE AddEach(_, _)
AddEach(detected, slugs) ==
    IF slugs = <<>> THEN detected
    ELSE AddEach(Add(detected, Head(slugs)), Tail(slugs))

\* the adds of a loop over slugs whose order does not matter
RECURSIVE AddAll(_, _)
AddAll(detected, slugs) ==
    IF slugs = {} THEN detected
    ELSE LET slug == CHOOSE x \in slugs : TRUE
         IN  AddAll(Add(detected, slug), slugs \ {slug})

\* Methods 1, 2, 3, 5, 7: Method 1 adds the slug of every plugin path of the
\* raw HTML, the other methods find the same paths again in the link,
\* script and meta tags
PathDetected(h) == AddEach(AddEach(EmptyBag, h.plugins), h.plugins)

\* a Method 4 that verifies the comment slugs whatever deep_scan is
CommentSlugsToVerifyAlways(h, detected, deep) ==
    LET Keep(c) == SlugLen(c) > 3 /\ ~BagIn(c, detected)
    IN  SelectSeq(h.comments, Keep)

\* Method 4: the candidates of the comments that are kept for verification
CommentSlugsToVerify(h, detected, deep) ==
    LET Keep(c) == SlugLen(c) > 3 /\ ~BagIn(c, detected) /\ deep
    IN  SelectSeq(h.comments, Keep)

\* Method 6: the table slugs whose indicator the HTML contains
IndicatorDetected(h) ==
    { plugin_indicators[k] : k \in { i \in IndicatorKeys : InHtmlLower(h, i) } }

\* Method 8: the table slugs whose indicator a generator tag contains
GeneratorDetected(h) ==
    { plugin_indicators[k] :
        k \in { i \in IndicatorKeys :
                  \E g \in DOMAIN h.gens :
                      \E w \in Range(GetContent(h.gens[g])) : WordContains(w, i) } }

\* a verification that takes any answer of the target for a plugin
PluginExistsAnyStatus(p) == p.st = "answered"

\* verify_plugin_slug and check_plugin_exists: the slug is returned when
\* the HEAD answers 200 or 403
PluginExists(p) == p.st = "answered" /\ p.status \in {200, 403}

\* plugins_to_check
PluginsToCheck(detected) ==
    LET Missing(p) == ~BagIn(p, detected) IN SelectSeq(CommonChecked, Missing)

\* a valid_slugs that keeps every detected slug
ValidSlugsUnchecked(detected) == detected

\* valid_slugs
ValidSlugs(detected) ==
    LET valid == { s \in BagToSet(detected) :
                     SlugLen(s) >= 2 /\ MatchesSlugPattern(s) }
    IN  [s \in valid |-> CopiesIn(s, detected)]

\* fetch_plugin_info, after its GET has settled
FetchPluginInfo(p, slug) ==
    LET plugin_info == NewPluginInfo(slug)
    IN  IF p.st = "answered" /\ p.status = 200 /\ ~StartsWithHtml(p.body)
        THEN [plugin_info EXCEPT !.version = StableTag(p.body),
                                 !.description = ReadmeDescription(p.body)]
        ELSE plugin_info

\* plugin_infos that keep an entry only when its readme.txt answered 200
PluginInfosOfReadmes(valid_slugs, n) ==
    LET read == { s \in BagToSet(valid_slugs) :
                    n.preadme[s].st = "answered" /\ n.preadme[s].status = 200 }
        infos == { FetchPluginInfo(n.preadme[s], s) : s \in read }
    IN  [i \in infos |-> CopiesIn(i.slug, valid_slugs)]

\* plugin_infos: one entry for every element of valid_slugs, made by
\* fetch_plugin_info from the answer to its GET
PluginInfos(valid_slugs, n) ==
    LET infos == { FetchPluginInfo(n.preadme[s], s) : s \in BagToSet(valid_slugs) }
    IN  [i \in infos |-> CopiesIn(i.slug, valid_slugs)]

PnetIdle ==
    [ verify  |-> [i \in 1..MaxComments |-> Idle],
      deep    |-> [s \in AllSlugs |-> Idle],
      preadme |-> [s \in AllSlugs |-> Idle] ]

\* lines 401-445: the readme.txt of every valid slug is requested
PluginAfterDeep(detected, n) ==
    LET valid_slugs == ValidSlugs(detected)
    IN  /\ detected_slugs' = detected
        /\ IF BagToSet(valid_slugs) = {}
           THEN /\ ppc' = "done"
                /\ pres' = EmptyBag
                /\ pnet' = n
           ELSE /\ ppc' = "readme"
                /\ pres' = pres
                /\ pnet' = [n EXCEPT !.preadme =
                              [s \in AllSlugs |->
                                 IF BagIn(s, valid_slugs) THEN Flight ELSE @[s]]]

\* lines 322-399: Methods 5 to 8, then the deep scan of the common plugins
PluginAfterVerify(detected, n) ==
    LET found == AddAll(AddAll(detected, IndicatorDetected(html)),
                        GeneratorDetected(html))
        plugins_to_check == PluginsToCheck(found)
    IN  IF deep_scan /\ plugins_to_check # <<>>
        THEN /\ ppc' = "deep"
             /\ detected_slugs' = found
             /\ pres' = pres
             /\ pnet' = [n EXCEPT !.deep =
                           [s \in AllSlugs |->
                              IF s \in Range(plugins_to_check) THEN Flight ELSE @[s]]]
        ELSE PluginAfterDeep(found, n)

\* lines 264-317: Methods 1 to 4, then the verification of the comment slugs
PluginStartStep ==
    LET detected == PathDetected(html)
        comment_slugs_to_verify == CommentSlugsToVerify(html, detected, deep_scan)
    IN  /\ to_verify' = comment_slugs_to_verify
        /\ IF comment_slugs_to_verify # <<>>
           THEN /\ ppc' = "verify"
                /\ detected_slugs' = detected
                /\ pres' = pres
                /\ pnet' = [pnet EXCEPT !.verify =
                              [i \in 1..MaxComments |->
                                 IF i <= Len(comment_slugs_to_verify)
                                 THEN Flight ELSE @[i]]]
           ELSE PluginAfterVerify(detected, pnet)

\* the task is cancelled while it awaits one of its gathers: the requests in
\* flight catch the CancelledError and return, the gather then raises it in
\* _detect_plugins, which has no handler around the await
PluginCancelStep ==
    /\ ppc \in {"verify", "deep", "readme"}
    /\ ppc' = "cancelled"
    /\ pnet' = [ verify  |-> [i \in 1..MaxComments |-> CancelProbe(pnet.verify[i])],
                 deep    |-> [s \in AllSlugs |-> CancelProbe(pnet.deep[s])],
                 preadme |-> [s \in AllSlugs |-> CancelProbe(pnet.preadme[s])] ]
    /\ UNCHANGED <<detected_slugs, to_verify, pres>>

PluginStart ==
    /\ ppc = "start"
    /\ PluginStartStep
    /\ UNCHANGED <<envVars, versionVars, themeVars, scanVars, routeVars>>

PluginVerifyAnswers ==
    /\ \E i \in 1..MaxComments :
          /\ pnet.verify[i].st = "flight"
          /\ \E s \in server.plugdir :
                pnet' = [pnet EXCEPT !.verify[i] = Answered(s, "none")]
    /\ UNCHANGED <<ppc, detected_slugs, to_verify, pres>>
    /\ UNCHANGED <<envVars, versionVars, themeVars, scanVars, routeVars>>

PluginVerifyFails ==
    /\ \E i \in 1..MaxComments :
          /\ pnet.verify[i].st = "flight"
          /\ pnet' = [pnet EXCEPT !.verify[i] = Failed]
    /\ UNCHANGED <<ppc, detected_slugs, to_verify, pres>>
    /\ UNCHANGED <<envVars, versionVars, themeVars, scanVars, routeVars>>

\* the gather of the verifications is complete: lines 318-320, then on
PluginVerifyJoin ==
    /\ ppc = "verify"
    /\ \A i \in 1..MaxComments : pnet.verify[i].st # "flight"
    /\ LET Exists(i) == PluginExists(pnet.verify[i])
           results == [i \in DOMAIN to_verify |-> to_verify[i]]
           kept == { i \in DOMAIN to_verify : Exists(i) }
       IN  PluginAfterVerify(
               AddAll(detected_slugs, { results[i] : i \in kept }), pnet)
    /\ UNCHANGED to_verify
    /\ UNCHANGED <<envVars, versionVars, themeVars, scanVars, routeVars>>

PluginDeepAnswers ==
    /\ \E p \in AllSlugs :
          /\ pnet.deep[p].st = "flight"
          /\ \E s \in server.plugdir :
                pnet' = [pnet EXCEPT !.deep[p] = Answered(s, "none")]
    /\ UNCHANGED <<ppc, detected_slugs, to_verify, pres>>
    /\ UNCHANGED <<envVars, versionVars, themeVars, scanVars, routeVars>>

PluginDeepFails ==
    /\ \E p \in AllSlugs :
          /\ pnet.deep[p].st = "flight"
          /\ pnet' = [pnet EXCEPT !.deep[p] = Failed]
    /\ UNCHANGED <<ppc, detected_slugs, to_verify, pres>>
    /\ UNCHANGED <<envVars, versionVars, themeVars, scanVars, routeVars>>

\* a deep scan that keeps only the slugs its own probes confirmed
PluginDeepJoinReplaces ==
    /\ ppc = "deep"
    /\ \A p \in AllSlugs : pnet.deep[p].st # "flight"
    /\ PluginAfterDeep(
           AddAll(EmptyBag, { p \in AllSlugs : PluginExists(pnet.deep[p]) }),
           pnet)
    /\ UNCHANGED to_verify
    /\ UNCHANGED <<envVars, versionVars, themeVars, scanVars, routeVars>>

\* the gather of the deep scan is complete: lines 397-399, then on
PluginDeepJoin ==
    /\ ppc = "deep"
    /\ \A p \in AllSlugs : pnet.deep[p].st # "flight"
    /\ PluginAfterDeep(
           AddAll(detected_slugs, { p \in AllSlugs : PluginExists(pnet.deep[p]) }),
           pnet)
    /\ UNCHANGED to_verify
    /\ UNCHANGED <<envVars, versionVars, themeVars, scanVars, routeVars>>

PluginReadmeAnswers ==
    /\ \E p \in AllSlugs :
          /\ pnet.preadme[p].st = "flight"
          /\ \E r \in server.preadme :
                pnet' = [pnet EXCEPT !.preadme[p] = Answered(r[1], r[2])]
    /\ UNCHANGED <<ppc, detected_slugs, to_verify, pres>>
    /\ UNCHANGED <<envVars, versionVars, themeVars, scanVars, routeVars>>

PluginReadmeFails ==
    /\ \E p \in AllSlugs :
          /\ pnet.preadme[p].st = "flight"
          /\ pnet' = [pnet EXCEPT !.preadme[p] = Failed]
    /\ UNCHANGED <<ppc, detected_slugs, to_verify, pres>>
    /\ UNCHANGED <<envVars, versionVars, themeVars, scanVars, routeVars>>

\* the gather of fetch_plugin_info is complete: lines 446-448
PluginReadmeJoin ==
    /\ ppc = "readme"
    /\ \A p \in AllSlugs : pnet.preadme[p].st # "flight"
    /\ pres' = PluginInfos(ValidSlugs(detected_slugs), pnet)
    /\ ppc' = "done"
    /\ UNCHANGED <<detected_slugs, to_verify, pnet>>
    /\ UNCHANGED <<envVars, versionVars, themeVars, scanVars, routeVars>>

(***************************************************************************)
(* _is_wordpress, analyze and _run_analysis: the task of one scan          *)
(***************************************************************************)
\* common_files
common_files == {"/wp-login.php", "/xmlrpc.php", "/wp-admin/"}

\* an exception: its class, the status of the response it carries (0 when
\* it carries none) and str(e) as a list of parts
NoExc == [type |-> "none", status |-> 0, message |-> <<>>]

\* the status code as it appears in the message of an HTTPStatusError
StatusText(s) ==
    CASE s = 404 -> "404"
      [] s = 500 -> "500"
      [] OTHER -> "status"

\* raised by response.raise_for_status()
HTTPStatusError(s) ==
    [type |-> "HTTPStatusError", status |-> s, message |-> <<StatusText(s)>>]

\* raised by self.client.get(url): connection error, request timeout
RequestError == [type |-> "RequestError", status |-> 0, message |-> <<"connect">>]

\* analyze, lines 88-89: raise Exception(f"Failed to analyze site: {str(e)}")
WrapException(e) ==
    [type |-> "Exception", status |-> 0,
     message |-> <<"Failed to analyze site">> \o e.message]

\* a raise_for_status that never raises
RaiseForStatusNever(s) == FALSE

\* response.raise_for_status()
RaiseForStatus(s) == s < 200 \/ s >= 300

\* Check 1: the first generator tag names WordPress
GeneratorSaysWordpress(h) ==
    LET generator == FindGenerator(h)
    IN  generator # NoTag /\ ContainsWordpress(GetContent(generator[1]))

\* Check 2: 'wp-content' in html or 'wp-includes' in html
RawHasWpContent(h) == h.wpc \/ h.themes # <<>> \/ h.plugins # <<>>

\* Check 3, after its GET has settled
WpJsonSaysWordpress(p) ==
    /\ p.st = "answered"
    /\ p.status = 200
    /\ InData(p.body) = "true"

\* check_wp_file, after its HEAD has settled
CheckWpFile(p) == p.st = "answered" /\ p.status \in {200, 302, 403}

\* _extract_metadata, by the fields the model follows
ExtractMetadata(h) ==
    LET generator_meta == FindGenerator(h)
    IN  Some([EmptyMetadata EXCEPT
                !.title = h.title,
                !.generator = IF generator_meta = NoTag THEN None
                              ELSE Some(GetContent(generator_meta[1]))])

SnetIdle == [home |-> Idle, wpjson |-> Idle, file |-> [f \in common_files |-> Idle]]

Pending == [kind |-> "pending", exc |-> NoExc]
Returned == [kind |-> "result", exc |-> NoExc]
Raised(e) == [kind |-> "exception", exc |-> e]
TaskCancelled == [kind |-> "cancelled", exc |-> NoExc]

\* analyze leaves with a return or an exception: _run_analysis leaves its
\* `async with` block and awaits __aexit__
LeaveAnalyze(o) ==
    /\ scanPc' = "closing"
    /\ outcome' = o

\* an analyze that starts the detectors whatever _is_wordpress returned
AnalyzeAlwaysDetects(is_wp) ==
    /\ result' = [result EXCEPT !.is_wordpress = is_wp]
    /\ scanPc' = "detect"
    /\ outcome' = outcome
    /\ VersionStartStep
    /\ ThemeStartStep
    /\ PluginStartStep

\* analyze, lines 71-83, once _is_wordpress has returned is_wp
AnalyzeAfterPresence(is_wp) ==
    /\ result' = [result EXCEPT !.is_wordpress = is_wp]
    /\ IF is_wp
       THEN /\ scanPc' = "detect"
            /\ outcome' = outcome
            /\ VersionStartStep
            /\ ThemeStartStep
            /\ PluginStartStep
       ELSE /\ LeaveAnalyze(Returned)
            /\ UNCHANGED <<versionVars, themeVars, pluginVars>>

\* _is_wordpress, lines 102-125, once the GET of /wp-json/ has settled
PresenceAfterWpJson(p) ==
    IF WpJsonSaysWordpress(p)
    THEN /\ snet' = [snet EXCEPT !.wpjson = p]
         /\ AnalyzeAfterPresence(TRUE)
    ELSE /\ snet' = [snet EXCEPT !.wpjson = p,
                                 !.file = [f \in common_files |-> Flight]]
         /\ scanPc' = "wpfiles"
         /\ UNCHANGED <<result, outcome>>
         /\ UNCHANGED <<versionVars, themeVars, pluginVars>>

\* an _is_wordpress without Checks 1 and 2: it always asks /wp-json/
PresenceStartAlwaysProbes(n) ==
    /\ snet' = [n EXCEPT !.wpjson = Flight]
    /\ scanPc' = "wpjson"
    /\ UNCHANGED <<result, outcome>>
    /\ UNCHANGED <<versionVars, themeVars, pluginVars>>

\* _is_wordpress up to its first await, lines 93-105; n is the scan's
\* requests once the homepage has answered
PresenceStart(n) ==
    IF GeneratorSaysWordpress(html) \/ RawHasWpContent(html)
    THEN /\ snet' = n
         /\ AnalyzeAfterPresence(TRUE)
    ELSE /\ snet' = [n EXCEPT !.wpjson = Flight]
         /\ scanPc' = "wpjson"
         /\ UNCHANGED <<result, outcome>>
         /\ UNCHANGED <<versionVars, themeVars, pluginVars>>

\* the route handler up to its await of wait_for, and the new task up to
\* its first await: the client is opened and the homepage is requested
RouteStart ==
    /\ routePc = "start"
    /\ routePc' = "waiting"
    /\ client' = "open"
    /\ result' = NewSiteInfo
    /\ snet' = [snet EXCEPT !.home = Flight]
    /\ scanPc' = "home"
    /\ UNCHANGED <<outcome, cancel_requested, response, timedOut>>
    /\ UNCHANGED <<envVars, versionVars, themeVars, pluginVars>>

\* the homepage answers: lines 64-70
HomeAnswers ==
    /\ scanPc = "home"
    /\ \E s \in server.home :
          IF RaiseForStatus(s)
          THEN /\ snet' = [snet EXCEPT !.home = Answered(s, "none")]
               /\ LeaveAnalyze(Raised(WrapException(HTTPStatusError(s))))
               /\ UNCHANGED result
               /\ UNCHANGED <<versionVars, themeVars, pluginVars>>
          ELSE PresenceStart([snet EXCEPT !.home = Answered(s, "html")])
    /\ UNCHANGED <<cancel_requested, client>>
    /\ UNCHANGED <<envVars, routeVars>>

\* the homepage request raises: lines 88-89
HomeFails ==
    /\ scanPc = "home"
    /\ snet' = [snet EXCEPT !.home = Failed]
    /\ LeaveAnalyze(Raised(WrapException(RequestError)))
    /\ UNCHANGED <<result, cancel_requested, client>>
    /\ UNCHANGED <<envVars, versionVars, themeVars, pluginVars, routeVars>>

WpJsonAnswers ==
    /\ scanPc = "wpjson"
    /\ \E r \in server.wpjson : PresenceAfterWpJson(Answered(r[1], r[2]))
    /\ UNCHANGED <<cancel_requested, client>>
    /\ UNCHANGED <<envVars, routeVars>>

\* a GET of /wp-json/ without its try/except: the error leaves
\* _is_wordpress and analyze re-raises it
WpJsonFailsRaises ==
    /\ scanPc = "wpjson"
    /\ snet' = [snet EXCEPT !.wpjson = Failed]
    /\ LeaveAnalyze(Raised(WrapException(RequestError)))
    /\ UNCHANGED <<result, cancel_requested, client>>
    /\ UNCHANGED <<envVars, versionVars, themeVars, pluginVars, routeVars>>

WpJsonFails ==
    /\ scanPc = "wpjson"
    /\ PresenceAfterWpJson(Failed)
    /\ UNCHANGED <<cancel_requested, client>>
    /\ UNCHANGED <<envVars, routeVars>>

WpFileAnswers ==
    /\ \E f \in common_files :
          /\ snet.file[f].st = "flight"
          /\ \E s \in server.file :
                snet' = [snet EXCEPT !.file[f] = Answered(s, "none")]
    /\ UNCHANGED <<scanPc, result, outcome, cancel_requested, client>>
    /\ UNCHANGED <<envVars, versionVars, themeVars, pluginVars, routeVars>>

WpFileFails ==
    /\ \E f \in common_files :
          /\ snet.file[f].st = "flight"
          /\ snet' = [snet EXCEPT !.file[f] = Failed]
    /\ UNCHANGED <<scanPc, result, outcome, cancel_requested, client>>
    /\ UNCHANGED <<envVars, versionVars, themeVars, pluginVars, routeVars>>

\* the gather of check_wp_file is complete: lines 124-128
PresenceJoin ==
    /\ scanPc = "wpfiles"
    /\ \A f \in common_files : snet.file[f].st # "flight"
    /\ AnalyzeAfterPresence(\E f \in common_files : CheckWpFile(snet.file[f]))
    /\ UNCHANGED <<snet, cancel_requested, client>>
    /\ UNCHANGED <<envVars, routeVars>>

DetectorsDone == vpc = "done" /\ tpc = "done" /\ ppc = "done"

\* an analyze that fills its result as soon as the version detector is done
AnalyzeMergeEarly ==
    /\ scanPc = "detect"
    /\ vpc = "done"
    /\ ~cancel_requested
    /\ result' = [result EXCEPT !.wordpress_version = vres,
                                !.theme = tres,
                                !.plugins = pres,
                                !.metadata = ExtractMetadata(html)]
    /\ LeaveAnalyze(Returned)
    /\ UNCHANGED <<cancel_requested, snet, client>>
    /\ UNCHANGED <<envVars, versionVars, themeVars, pluginVars, routeVars>>

\* the gather of the three detectors is complete: lines 81-86
AnalyzeMerge ==
    /\ scanPc = "detect"
    /\ DetectorsDone
    /\ ~cancel_requested
    /\ result' = [result EXCEPT !.wordpress_version = vres,
                                !.theme = tres,
                                !.plugins = pres,
                                !.metadata = ExtractMetadata(html)]
    /\ LeaveAnalyze(Returned)
    /\ UNCHANGED <<cancel_requested, snet, client>>
    /\ UNCHANGED <<envVars, versionVars, themeVars, pluginVars, routeVars>>

\* the gather was cancelled while a detector that swallows the cancellation
\* was still running: when its last child is done it raises CancelledError
\* in analyze, which `except Exception` does not catch
AnalyzeGatherCancelled ==
    /\ scanPc = "detect"
    /\ DetectorsDone
    /\ cancel_requested
    /\ LeaveAnalyze(TaskCancelled)
    /\ UNCHANGED <<result, cancel_requested, snet, client>>
    /\ UNCHANGED <<envVars, versionVars, themeVars, pluginVars, routeVars>>

\* __aexit__: await self.client.aclose() completes and the task ends
AnalyzerClose ==
    /\ scanPc = "closing"
    /\ client' = "closed"
    /\ scanPc' = "finished"
    /\ UNCHANGED <<result, outcome, cancel_requested, snet>>
    /\ UNCHANGED <<envVars, versionVars, themeVars, pluginVars, routeVars>>

(***************************************************************************)
(* analyze_wordpress_site: asyncio.wait_for and the responses              *)
(***************************************************************************)
AtGather(pc) == pc \in {"gather", "verify", "deep", "readme"}

\* the analysis timeout expires: wait_for cancels the task of the scan and
\* CancelledError is thrown at the await the task is suspended at
TimeoutFires ==
    /\ routePc = "waiting"
    /\ ~timedOut
    /\ scanPc \in {"home", "wpjson", "wpfiles", "detect", "closing"}
    /\ timedOut' = TRUE
    /\ CASE scanPc = "home" ->
             \* line 64: `except Exception` does not catch CancelledError
             /\ snet' = [snet EXCEPT !.home = Cancelled]
             /\ LeaveAnalyze(TaskCancelled)
             /\ UNCHANGED <<result, cancel_requested, client>>
             /\ UNCHANGED <<versionVars, themeVars, pluginVars>>
         [] scanPc = "wpjson" ->
             \* lines 103-111: the bare except catches CancelledError
             /\ PresenceAfterWpJson(Cancelled)
             /\ UNCHANGED <<cancel_requested, client>>
         [] scanPc = "wpfiles" ->
             \* lines 117-124: each check_wp_file catches it and returns
             \* False, the gather raises it in _is_wordpress
             /\ snet' = [snet EXCEPT !.file =
                           [f \in common_files |-> CancelProbe(snet.file[f])]]
             /\ LeaveAnalyze(TaskCancelled)
             /\ UNCHANGED <<result, cancel_requested, client>>
             /\ UNCHANGED <<versionVars, themeVars, pluginVars>>
         [] scanPc = "detect" ->
             \* lines 81-83: the gather cancels the detectors still running
             /\ IF vpc \in {"feed", "readme"} THEN VersionCancelStep
                ELSE UNCHANGED versionVars
             /\ IF tpc = "gather" THEN ThemeCancelStep ELSE UNCHANGED themeVars
             /\ IF AtGather(ppc) THEN PluginCancelStep ELSE UNCHANGED pluginVars
             /\ IF AtGather(tpc) \/ AtGather(ppc)
                THEN /\ LeaveAnalyze(TaskCancelled)
                     /\ UNCHANGED cancel_requested
                ELSE /\ cancel_requested' = TRUE
                     /\ UNCHANGED <<scanPc, outcome>>
             /\ UNCHANGED <<result, snet, client>>
         [] scanPc = "closing" ->
             \* lines 38-39: CancelledError leaves __aexit__ and replaces
             \* the outcome of analyze
             /\ client' = "interrupted"
             /\ scanPc' = "finished"
             /\ outcome' = TaskCancelled
             /\ UNCHANGED <<result, cancel_requested, snet>>
             /\ UNCHANGED <<versionVars, themeVars, pluginVars>>
    /\ UNCHANGED <<envVars, routePc, response>>

NoResponse ==
    [status |-> 0, success |-> FALSE, kind |-> "none", code |-> 0, text |-> <<>>]

\* a handler that answers every outcome with a summary
ResponseAlwaysSummary(o, site_info) ==
    [NoResponse EXCEPT !.status = 200, !.kind = "summary", !.success = TRUE]

\* lines 50-127: the response for the outcome of wait_for; kind names the
\* summary text, code and text are what the summary quotes
ResponseFor(o, site_info) ==
    CASE o.kind = "result" /\ ~site_info.is_wordpress ->
             [NoResponse EXCEPT !.status = 200, !.kind = "not_wordpress"]
      [] o.kind = "result" /\ site_info.is_wordpress ->
             [NoResponse EXCEPT !.status = 200, !.kind = "summary",
                                !.success = TRUE]
      [] o.kind = "cancelled" ->
             [NoResponse EXCEPT !.status = 504, !.kind = "timeout"]
      [] o.kind = "exception" /\ o.exc.type = "HTTPStatusError" ->
             [NoResponse EXCEPT !.status = 200, !.kind = "http_error",
                                !.code = o.exc.status]
      [] o.kind = "exception" /\ o.exc.type = "RequestError" ->
             [NoResponse EXCEPT !.status = 200, !.kind = "connect_error",
                                !.text = o.exc.message]
      [] OTHER ->
             [NoResponse EXCEPT !.status = 200, !.kind = "error",
                                !.text = o.exc.message]

\* the task of the scan has ended: wait_for returns its result, re-raises
\* its exception or, when the task ended cancelled, raises TimeoutError
RouteResponds ==
    /\ routePc = "waiting"
    /\ scanPc = "finished"
    /\ routePc' = "done"
    /\ response' = ResponseFor(outcome, result)
    /\ UNCHANGED timedOut
    /\ UNCHANGED <<envVars, versionVars, themeVars, pluginVars, scanVars>>

(***************************************************************************)
(* Specifications                                                          *)
(***************************************************************************)
VnetIdle == [feed |-> Idle, readme |-> Idle]
TnetIdle == [shot |-> Idle, style |-> Idle]

\* no scan of the URL has run before this one
NotServed ==
    [used |-> FALSE, snet |-> SnetIdle, vnet |-> VnetIdle, tnet |-> TnetIdle,
     pnet |-> PnetIdle, result |-> NewSiteInfo, outcome |-> Pending]

\* a homepage without any signal
EmptyPage ==
    [gens |-> <<>>, vers |-> <<>>, themes |-> <<>>, wpc |-> FALSE,
     plugins |-> <<>>, comments |-> <<>>, text |-> {}, title |-> "none"]

VersionPages ==
    { [EmptyPage EXCEPT !.gens = g, !.vers = v] :
        g \in SeqsUpTo(GenTags, MaxGen), v \in SeqsUpTo(Versions, MaxOcc) }

ThemePages ==
    { [EmptyPage EXCEPT !.themes = t] : t \in SeqsUpTo(ThemeSlugs, MaxOcc) }

\* generator tags and words of a homepage that name a plugin of the table
PluginGens == { <<>>, << [has |-> TRUE, content |-> <<"Elementor", "5.9">>] >> }
PluginTexts == { {}, {"akismet"} }

\* homepages with plugin paths, generator tags and indicator words, and
\* homepages with comments and at most one plugin path
PluginPages ==
    { [EmptyPage EXCEPT !.plugins = p, !.gens = g, !.text = t] :
        p \in SeqsUpTo(PathSlugs, MaxPlug), g \in PluginGens, t \in PluginTexts }
    \cup
    { [EmptyPage EXCEPT !.plugins = p, !.comments = c] :
        p \in { <<>>, <<"akismet">> }, c \in SeqsUpTo(CommentSlugs, MaxComments) }

\* the homepages of the scans: one without any signal, one of a site that
\* shows its version and its theme, one of a site that hides its version
\* behind a generator tag without content attribute and shows a plugin path
\* and a plugin comment
ScanPages ==
    { EmptyPage,
      [EmptyPage EXCEPT !.gens = << [has |-> TRUE, content |-> <<"WordPress", "6.4">>] >>,
                        !.themes = <<"astra">>,
                        !.title = "Blog"],
      [EmptyPage EXCEPT !.wpc = TRUE,
                        !.gens = << [has |-> FALSE, content |-> <<>>] >>,
                        !.vers = <<"5.9">>,
                        !.plugins = <<"akismet">>,
                        !.comments = <<"rocket">>,
                        !.title = "Shop"] }

(***************************************************************************)
(* routes/summarize.py: POST /summarize/attachments and /summarize/urls.   *)
(* An input of a batch is an uploaded file or a URL, together with what    *)
(* the world answers while it is processed: the download, the size of the  *)
(* content, the extraction of its text and the completion of the model.    *)
(***************************************************************************)

\* the longest batch
MaxItems == 2

\* DocumentProcessor.SUPPORTED_EXTENSIONS
SUPPORTED_EXTENSIONS == {".pdf", ".txt", ".docx"}

\* a filename is held as os.path.splitext cuts it: root and extension
get_file_extension(filename) == Lower(filename.ext)

is_supported(filename) ==
    get_file_extension(filename) \in SUPPORTED_EXTENSIONS

\* an upload without a filename, and the name it is given: `or "unknown"`
NoName == [root |-> "", ext |-> ""]
UnknownName == [root |-> "unknown", ext |-> ""]

FileNames ==
    { [root |-> "report", ext |-> ".pdf"],
      [root |-> "letter", ext |-> ".DOCX"],
      [root |-> "notes", ext |-> ".txt"],
      [root |-> "setup", ext |-> ".exe"],
      NoName }

\* a URL is held as url.split("/")[-1].split("?")[0] cuts it: what comes
\* before the last "/", the last segment up to "?", and the query
Urls ==
    { [dir |-> "https://example.com", last |-> [root |-> "report", ext |-> ".pdf"], query |-> ""],
      [dir |-> "https://example.com", last |-> [root |-> "notes", ext |-> ".txt"], query |-> "dl=1"],
      [dir |-> "https://example.com/view", last |-> [root |-> "42", ext |-> ""], query |-> ""],
      [dir |-> "https://example.com", last |-> NoName, query |-> ""] }

\* the filename process_url derives from the URL
UrlFilename(url) ==
    LET filename == IF url.last = NoName
                    THEN [root |-> "document", ext |-> ""]
                    ELSE url.last
    IN  IF is_supported(filename)
        THEN filename
        ELSE [root |-> filename.root, ext |-> ".pdf"]

\* a str of the batch endpoints; None is not a str
Str(s) == [str |-> s]

\* message.content of the completion: a text, an empty text or null
Completions == {Str("Summary of the document"), Str(""), None}

\* what the world answers for one input
GoodWorld ==
    [download |-> "ok", size |-> "small", extraction |-> "text",
     generation |-> "ok", content |-> Str("Summary of the document")]

\* the worlds of the model: everything goes well, or one thing does not
Worlds ==
    { GoodWorld,
      [GoodWorld EXCEPT !.download = "HTTPStatusError"],
      [GoodWorld EXCEPT !.download = "RequestError"],
      [GoodWorld EXCEPT !.size = "large"],
      [GoodWorld EXCEPT !.extraction = "raises"],
      [GoodWorld EXCEPT !.generation = "raises"] }
        \cup { [GoodWorld EXCEPT !.content = c] : c \in Completions }

\* an upload is read from the request, it is not downloaded
FileInputs ==
    { [src |-> f, world |-> w] : f \in FileNames,
                                 w \in {v \in Worlds : v.download = "ok"} }

UrlInputs == { [src |-> u, world |-> w] : u \in Urls, w \in Worlds }

\* DocumentProcessor.extract_text: a .txt is decoded and never fails, a
\* .pdf or .docx is parsed and may fail, anything else is a ValueError
extract_text(filename, world) ==
    LET ext == get_file_extension(filename)
    IN  IF ext = ".txt" THEN "text"
        ELSE IF ext \in {".pdf", ".docx"} THEN world.extraction
        ELSE "raises"

\* SummaryService.summarize_document and OpenRouterProvider.generate:
\* result["summary"] is message.content, or an exception is raised
summarize_document(filename, world) ==
    IF extract_text(filename, world) = "raises"
    THEN [raised |-> TRUE, summary |-> None]
    ELSE IF world.generation = "raises"
    THEN [raised |-> TRUE, summary |-> None]
    ELSE [raised |-> FALSE, summary |-> world.content]

\* the tuple a process_file or process_url returns
Triple(key, summary, error) == [key |-> key, summary |-> summary, error |-> error]

process_file(input) ==
    LET filename == IF input.src = NoName THEN UnknownName ELSE input.src
        done == summarize_document(filename, input.world)
    IN  IF ~is_supported(filename)
        THEN Triple(filename, None, Str("Unsupported file type. Supported types: PDF, TXT, DOCX"))
        ELSE IF input.world.size = "large"
        THEN Triple(filename, None, Str("File too large. Maximum size: 50MB"))
        ELSE IF done.raised
        THEN Triple(filename, None, Str("Error: failed"))
        ELSE Triple(filename, done.summary, None)

process_url(input) ==
    LET url == input.src
        filename == UrlFilename(url)
        done == summarize_document(filename, input.world)
    IN  IF input.world.download = "HTTPStatusError"
        THEN Triple(url, None, Str("HTTP error 404: Failed to download"))
        ELSE IF input.world.download = "RequestError"
        THEN Triple(url, None, Str("Request failed: connect"))
        ELSE IF input.world.size = "large"
        THEN Triple(url, None, Str("File too large. Maximum size: 50MB"))
        ELSE IF done.raised
        THEN Triple(url, None, Str("Error: failed"))
        ELSE Triple(url, done.summary, None)

\* `if error:` on None or a str
Truthy(x) == x # None /\ x # Str("")

\* d[k] = v on a dict
Put(d, k, v) == [x \in DOMAIN d \cup {k} |-> IF x = k THEN v ELSE d[x]]

EmptyDict == <<>>

\* the loop over the responses of the gather, in the order of the inputs
RECURSIVE Collect(_, _, _)
Collect(tuples, i, acc) ==
    IF i > Len(tuples) THEN acc
    ELSE LET r == tuples[i]
         IN  Collect(tuples, i + 1,
                     IF Truthy(r.error)
                     THEN [acc EXCEPT !.errors = Put(acc.errors, r.key, r.error)]
                     ELSE [acc EXCEPT !.results = Put(acc.results, r.key, r.summary)])

\* Dict[str, str] of the response model: a value that is None is refused
ValidDict(d) == \A k \in DOMAIN d : d[k] # None

\* BatchAttachmentResponse(...) and BatchURLResponse(...): the response, or
\* the ValidationError of the constructor, which the route does not catch
BatchResponse(results, errors) ==
    IF ValidDict(results) /\ ValidDict(errors)
    THEN [status |-> 200, success |-> (errors = EmptyDict),
          results |-> results, errors |-> errors]
    ELSE [status |-> 500, success |-> FALSE,
          results |-> EmptyDict, errors |-> EmptyDict]

\* raise HTTPException(status_code=400, ...)
BadRequest ==
    [status |-> 400, success |-> FALSE, results |-> EmptyDict, errors |-> EmptyDict]

NoBatchResponse ==
    [status |-> 0, success |-> FALSE, results |-> EmptyDict, errors |-> EmptyDict]

NotReturned == [key |-> None, summary |-> None, error |-> None]

\* the handler up to the gather: an empty batch or a missing API key is a 400
BatchStart ==
    /\ batchPc = "start"
    /\ IF inputs = <<>> \/ ~openrouter_api_key
       THEN /\ batchPc' = "done"
            /\ batch_response' = BadRequest
            /\ UNCHANGED responses
       ELSE /\ batchPc' = "gather"
            /\ responses' = [i \in 1..Len(inputs) |-> NotReturned]
            /\ UNCHANGED batch_response
    /\ UNCHANGED <<endpoint, inputs, openrouter_api_key, batch_results, batch_errors>>
    /\ UNCHANGED <<wpVars, tempVars>>

\* one process_file or process_url of the gather returns its tuple
BatchItemReturns ==
    /\ batchPc = "gather"
    /\ \E i \in 1..Len(inputs) :
          /\ responses[i] = NotReturned
          /\ responses' = [responses EXCEPT ![i] =
                              IF endpoint = "attachments"
                              THEN process_file(inputs[i])
                              ELSE process_url(inputs[i])]
    /\ UNCHANGED <<endpoint, inputs, openrouter_api_key, batchPc,
                   batch_results, batch_errors, batch_response>>
    /\ UNCHANGED <<wpVars, tempVars>>

\* the gather has every tuple: results and errors are filled and the
\* response is built
BatchJoin ==
    /\ batchPc = "gather"
    /\ \A i \in 1..Len(inputs) : responses[i] # NotReturned
    /\ LET filled == Collect(responses, 1, [results |-> EmptyDict, errors |-> EmptyDict])
       IN  /\ batch_results' = filled.results
           /\ batch_errors' = filled.errors
           /\ batch_response' = BatchResponse(filled.results, filled.errors)
    /\ batchPc' = "done"
    /\ UNCHANGED <<endpoint, inputs, openrouter_api_key, responses>>
    /\ UNCHANGED <<wpVars, tempVars>>

NextBatch ==
    \/ BatchStart
    \/ BatchItemReturns
    \/ BatchJoin

(***************************************************************************)
(* The operations that work on a temporary file:                           *)
(* DocumentProcessor.extract_text_from_pdf and extract_text_from_docx,     *)
(* VideoProcessor.process_video and GeminiProvider.summarize_video_url.    *)
(* The service runs them one after the other on the same temp directory.   *)
(***************************************************************************)

\* the most operations that are run one after the other
MaxJobs == 2

\* "video" and "audio" are process_video on a video and on an audio file
JobKinds == {"pdf", "docx", "video", "audio", "gemini"}

\* the files an operation may leave in the temp directory
TempFile(j) == [job |-> j, name |-> "tmp"]
AudioFile(j) == [job |-> j, name |-> "audio"]

\* the operation returns or raises: the next one, if any, may start
JobExits(how) ==
    /\ job_exit' = Append(job_exit, how)
    /\ job' = job + 1
    /\ jobPc' = IF job < Len(jobs) THEN "start" ELSE "idle"
    /\ tmp_file_path' = None
    /\ audio_path' = None

\* finally: os.unlink(tmp_file_path)
UnlinkDocument(files, path) == files \ {path}

\* finally of process_video
UnlinkVideo(files, video_path, audio) ==
    LET rest == IF video_path \in files THEN files \ {video_path} ELSE files
    IN  IF audio # None /\ audio \in rest THEN rest \ {audio} ELSE rest

\* finally of summarize_video_url, as far as the temp directory goes
UnlinkDownload(files, path) ==
    IF path # None /\ path \in files THEN files \ {path} ELSE files

\* the finally block of the operation that is running
Finally(files, path, audio) ==
    CASE jobs[job] \in {"pdf", "docx"} -> UnlinkDocument(files, path)
      [] jobs[job] \in {"video", "audio"} -> UnlinkVideo(files, path, audio)
      [] OTHER -> UnlinkDownload(files, path)

Running == job <= Len(jobs)

\* summarize_video_url: the GET of the video and raise_for_status
JobDownload ==
    /\ Running /\ jobPc = "start" /\ jobs[job] = "gemini"
    /\ \/ /\ jobPc' = "create"
          /\ UNCHANGED <<job, job_exit, tmp_file_path, audio_path>>
       \/ JobExits("raised")
    /\ UNCHANGED <<jobs, disk>>
    /\ UNCHANGED <<wpVars, batchVars>>

\* tempfile.NamedTemporaryFile(suffix=..., delete=False): the file exists
\* from here on, or the call raises and there is no file
JobCreate ==
    /\ Running
    /\ \/ jobPc = "start" /\ jobs[job] # "gemini"
       \/ jobPc = "create"
    /\ \/ /\ disk' = disk \cup {TempFile(job)}
          /\ jobPc' = "write"
          /\ UNCHANGED <<job, job_exit, tmp_file_path, audio_path>>
       \/ /\ JobExits("raised")
          /\ UNCHANGED disk
    /\ UNCHANGED jobs
    /\ UNCHANGED <<wpVars, batchVars>>

\* tmp_file.write(content) and the end of the with block, which closes the
\* file and keeps it.  The path is bound after the write.  A write that
\* raises leaves the operation: in the document and video operations the
\* try has not been entered, in summarize_video_url tmp_file_path is None
JobWrite ==
    /\ Running /\ jobPc = "write"
    /\ \/ /\ tmp_file_path' = TempFile(job)
          /\ jobPc' = "work"
          /\ UNCHANGED <<job, job_exit, audio_path, disk>>
       \/ /\ JobExits("raised")
          /\ disk' = IF jobs[job] = "gemini"
                     THEN Finally(disk, tmp_file_path, audio_path)
                     ELSE disk
    /\ UNCHANGED jobs
    /\ UNCHANGED <<wpVars, batchVars>>

\* PdfReader / Document and the loops over pages, paragraphs and tables,
\* then the finally block
JobExtractText ==
    /\ Running /\ jobPc = "work" /\ jobs[job] \in {"pdf", "docx"}
    /\ \E how \in {"returned", "raised"} : JobExits(how)
    /\ disk' = Finally(disk, tmp_file_path, audio_path)
    /\ UNCHANGED jobs
    /\ UNCHANGED <<wpVars, batchVars>>

\* process_video on a video: audio_path = tempfile.mktemp(".wav") and
\* extract_audio_from_video, which writes the audio file; when it raises,
\* the audio file may have been started or not
JobExtractAudio ==
    /\ Running /\ jobPc = "work" /\ jobs[job] = "video"
    /\ audio_path = None
    /\ \/ /\ audio_path' = AudioFile(job)
          /\ disk' = disk \cup {AudioFile(job)}
          /\ UNCHANGED <<job, jobPc, job_exit, tmp_file_path>>
       \/ /\ JobExits("raised")
          /\ \E started \in BOOLEAN :
                disk' = Finally(IF started THEN disk \cup {AudioFile(job)} ELSE disk,
                                tmp_file_path, AudioFile(job))
    /\ UNCHANGED jobs
    /\ UNCHANGED <<wpVars, batchVars>>

\* process_video: transcribe_audio of the audio file, then the finally block
JobTranscribe ==
    /\ Running /\ jobPc = "work"
    /\ \/ jobs[job] = "audio"
       \/ jobs[job] = "video" /\ audio_path # None
    /\ \E how \in {"returned", "raised"} : JobExits(how)
    /\ disk' = Finally(disk, tmp_file_path, audio_path)
    /\ UNCHANGED jobs
    /\ UNCHANGED <<wpVars, batchVars>>

\* summarize_video_url: client.files.upload and _wait_for_file_processing
JobUpload ==
    /\ Running /\ jobPc = "work" /\ jobs[job] = "gemini"
    /\ \/ /\ jobPc' = "generate"
          /\ UNCHANGED <<job, job_exit, tmp_file_path, audio_path, disk>>
       \/ /\ JobExits("raised")
          /\ disk' = Finally(disk, tmp_file_path, audio_path)
    /\ UNCHANGED jobs
    /\ UNCHANGED <<wpVars, batchVars>>

\* summarize_video_url: generate_content, then the finally block
JobGenerate ==
    /\ Running /\ jobPc = "generate"
    /\ \E how \in {"returned", "raised"} : JobExits(how)
    /\ disk' = Finally(disk, tmp_file_path, audio_path)
    /\ UNCHANGED jobs
    /\ UNCHANGED <<wpVars, batchVars>>

NextTemp ==
    \/ JobDownload
    \/ JobCreate
    \/ JobWrite
    \/ JobExtractText
    \/ JobExtractAudio
    \/ JobTranscribe
    \/ JobUpload
    \/ JobGenerate

\* no batch is being summarized
NoBatch ==
    /\ endpoint = "none" /\ inputs = <<>> /\ openrouter_api_key = FALSE
    /\ responses = <<>>
    /\ batch_results = EmptyDict /\ batch_errors = EmptyDict
    /\ batch_response = NoBatchResponse /\ batchPc = "off"

\* no temp file operation is run
NoJobs ==
    /\ jobs = <<>> /\ job = 1 /\ jobPc = "idle" /\ job_exit = <<>>
    /\ tmp_file_path = None /\ audio_path = None /\ disk = {}

NoTask ==
    /\ NoBatch /\ NoJobs
    /\ served = NotServed
    /\ vnet = VnetIdle /\ vres = None
    /\ tnet = TnetIdle /\ tres = None
    /\ detected_slugs = EmptyBag /\ to_verify = <<>> /\ pres = EmptyBag
    /\ pnet = PnetIdle
    /\ result = NewSiteInfo /\ outcome = Pending /\ cancel_requested = FALSE
    /\ snet = SnetIdle /\ client = "none"
    /\ response = NoResponse /\ timedOut = FALSE

\* one detector is run alone on a homepage, against any target
InitDetectors ==
    /\ NoTask
    /\ server = AnyServer
    /\ deep_scan = FALSE
    /\ scanPc = "off" /\ routePc = "off"
    /\ ppc = "off"
    /\ \/ html \in VersionPages /\ vpc = "start" /\ tpc = "off"
       \/ html \in ThemePages /\ vpc = "off" /\ tpc = "start"

NextVersion ==
    \/ VersionStart
    \/ VersionFeedAnswers
    \/ VersionFeedFails
    \/ VersionReadmeAnswers
    \/ VersionReadmeFails
    \/ VersionCancelled

NextTheme ==
    \/ ThemeStart
    \/ ThemeScreenshotAnswers
    \/ ThemeScreenshotFails
    \/ ThemeStyleAnswers
    \/ ThemeStyleFails
    \/ ThemeJoin
    \/ ThemeCancelled

NextDetectors == NextVersion \/ NextTheme

SpecDetectors == InitDetectors /\ [][NextDetectors]_vars

\* _detect_plugins is run alone, with either deep_scan value, on a homepage
\* with plugin paths, comments, generator tags and indicator words
InitPlugins ==
    /\ NoTask
    /\ server = AnyServer
    /\ deep_scan \in BOOLEAN
    /\ scanPc = "off" /\ routePc = "off"
    /\ vpc = "off" /\ tpc = "off" /\ ppc = "start"
    /\ html \in PluginPages

NextPlugins ==
    \/ PluginStart
    \/ PluginVerifyAnswers
    \/ PluginVerifyFails
    \/ PluginVerifyJoin
    \/ PluginDeepAnswers
    \/ PluginDeepFails
    \/ PluginDeepJoin
    \/ PluginReadmeAnswers
    \/ PluginReadmeFails
    \/ PluginReadmeJoin

SpecPlugins == InitPlugins /\ [][NextPlugins]_vars

\* GET /api/v1/wordpress/analyze: the route runs one scan with
\* deep_scan=True under the analysis timeout
Init ==
    /\ NoTask
    /\ html \in ScanPages
    /\ server = PlainServer
    /\ deep_scan = TRUE
    /\ vpc = "off" /\ tpc = "off" /\ ppc = "off"
    /\ scanPc = "idle" /\ routePc = "start"

NextProbes ==
    \/ VersionFeedAnswers
    \/ VersionFeedFails
    \/ VersionReadmeAnswers
    \/ VersionReadmeFails
    \/ ThemeScreenshotAnswers
    \/ ThemeScreenshotFails
    \/ ThemeStyleAnswers
    \/ ThemeStyleFails
    \/ ThemeJoin
    \/ PluginVerifyAnswers
    \/ PluginVerifyFails
    \/ PluginVerifyJoin
    \/ PluginDeepAnswers
    \/ PluginDeepFails
    \/ PluginDeepJoin
    \/ PluginReadmeAnswers
    \/ PluginReadmeFails
    \/ PluginReadmeJoin

NextScan ==
    \/ RouteStart
    \/ HomeAnswers
    \/ HomeFails
    \/ WpJsonAnswers
    \/ WpJsonFails
    \/ WpFileAnswers
    \/ WpFileFails
    \/ PresenceJoin
    \/ AnalyzeMerge
    \/ AnalyzeGatherCancelled
    \/ AnalyzerClose
    \/ TimeoutFires
    \/ RouteResponds

Next == NextScan \/ NextProbes

Spec == Init /\ [][Next]_vars

\* a second request for the same URL and deep_scan: the handler builds a
\* new WordPressAnalyzer and a new task, nothing of the first scan is kept
\* but what the target answered
SecondRequest ==
    /\ routePc = "done"
    /\ ~served.used
    /\ served' = [used |-> TRUE, snet |-> snet, vnet |-> vnet, tnet |-> tnet,
                  pnet |-> pnet, result |-> result, outcome |-> outcome]
    /\ vnet' = VnetIdle /\ vres' = None /\ vpc' = "off"
    /\ tnet' = TnetIdle /\ tres' = None /\ tpc' = "off"
    /\ detected_slugs' = EmptyBag /\ to_verify' = <<>> /\ pres' = EmptyBag
    /\ pnet' = PnetIdle /\ ppc' = "off"
    /\ result' = NewSiteInfo /\ outcome' = Pending
    /\ cancel_requested' = FALSE
    /\ snet' = SnetIdle /\ client' = "none"
    /\ response' = NoResponse /\ timedOut' = FALSE
    /\ scanPc' = "idle" /\ routePc' = "start"
    /\ UNCHANGED <<html, server, deep_scan, batchVars, tempVars>>

\* a request that both scans issued and that was answered in both was
\* answered the same: the responses of the target have not changed
Replays(p, q) == (Settled(p) /\ Settled(q)) => p = q

Replayed ==
    served.used =>
        /\ Replays(snet.home, served.snet.home)
        /\ Replays(snet.wpjson, served.snet.wpjson)
        /\ \A f \in common_files : Replays(snet.file[f], served.snet.file[f])
        /\ Replays(vnet.feed, served.vnet.feed)
        /\ Replays(vnet.readme, served.vnet.readme)
        /\ Replays(tnet.shot, served.tnet.shot)
        /\ Replays(tnet.style, served.tnet.style)
        /\ \A i \in 1..MaxComments :
              Replays(pnet.verify[i], served.pnet.verify[i])
        /\ \A s \in AllSlugs :
              /\ Replays(pnet.deep[s], served.pnet.deep[s])
              /\ Replays(pnet.preadme[s], served.pnet.preadme[s])

\* the scan without the timer of the route
NextAnalyze ==
    \/ RouteStart
    \/ HomeAnswers
    \/ HomeFails
    \/ WpJsonAnswers
    \/ WpJsonFails
    \/ WpFileAnswers
    \/ WpFileFails
    \/ PresenceJoin
    \/ AnalyzeMerge
    \/ AnalyzerClose
    \/ RouteResponds
    \/ NextProbes

\* the same URL is scanned twice, one scan after the other, and the target
\* answers the second scan as it answered the first
NextRepeat ==
    \/ SecondRequest
    \/ NextAnalyze /\ Replayed'

SpecRepeat == Init /\ [][NextRepeat]_vars

\* no scan is run
NoScan ==
    /\ served = NotServed
    /\ html = EmptyPage /\ server = PlainServer /\ deep_scan = FALSE
    /\ vpc = "off" /\ tpc = "off" /\ ppc = "off"
    /\ scanPc = "off" /\ routePc = "off"
    /\ vnet = VnetIdle /\ vres = None
    /\ tnet = TnetIdle /\ tres = None
    /\ detected_slugs = EmptyBag /\ to_verify = <<>> /\ pres = EmptyBag
    /\ pnet = PnetIdle
    /\ result = NewSiteInfo /\ outcome = Pending /\ cancel_requested = FALSE
    /\ snet = SnetIdle /\ client = "none"
    /\ response = NoResponse /\ timedOut = FALSE

\* a batch of files or of URLs is posted, with or without the API key
InitBatch ==
    /\ NoScan /\ NoJobs
    /\ \/ endpoint = "attachments" /\ inputs \in SeqsUpTo(FileInputs, MaxItems)
       \/ endpoint = "urls" /\ inputs \in SeqsUpTo(UrlInputs, MaxItems)
    /\ openrouter_api_key \in BOOLEAN
    /\ responses = <<>>
    /\ batch_results = EmptyDict /\ batch_errors = EmptyDict
    /\ batch_response = NoBatchResponse /\ batchPc = "start"

SpecBatch == InitBatch /\ [][NextBatch]_vars

\* one to MaxJobs operations are run on an empty temp directory
InitTemp ==
    /\ NoScan /\ NoBatch
    /\ jobs \in SeqsUpTo(JobKinds, MaxJobs) \ { <<>> }
    /\ job = 1 /\ jobPc = "start" /\ job_exit = <<>>
    /\ tmp_file_path = None /\ audio_path = None /\ disk = {}

SpecTemp == InitTemp /\ [][NextTemp]_vars

(***************************************************************************)
(* Claims                                                                  *)
(***************************************************************************)
\* the homepage GET raised, or answered a status outside 200..299
HomeFailed ==
    \/ snet.home.st = "failed"
    \/ snet.home.st = "answered" /\ (snet.home.status < 200 \/ snet.home.status > 299)

\* the homepage GET answered a status within 200..299
HomeOk ==
    snet.home.st = "answered" /\ snet.home.status >= 200 /\ snet.home.status <= 299

\* one of the four presence checks matched
PresenceMatched ==
    \/ GeneratorSaysWordpress(html)
    \/ RawHasWpContent(html)
    \/ WpJsonSaysWordpress(snet.wpjson)
    \/ \E f \in common_files : CheckWpFile(snet.file[f])

Populated(site_info) ==
    \/ site_info.wordpress_version # None
    \/ site_info.theme # None
    \/ site_info.plugins # EmptyBag
    \/ site_info.metadata # None

\* C1: in every scan whose presence detector returns false, analyze returns
\* is_wordpress = false with version, theme and metadata unset and no
\* plugin; in every SiteInfo a populated version, theme, plugin or metadata
\* field implies is_wordpress = true.
C1_NonWordPressStaysEmpty ==
    /\ Populated(result) => result.is_wordpress
    /\ (outcome.kind = "result" /\ ~PresenceMatched) => result = NewSiteInfo
    /\ (scanPc = "finished" /\ HomeOk /\ ~PresenceMatched /\ ~timedOut) =>
           outcome.kind = "result"

\* a scan has returned a negative answer after all four presence checks
C1_Witness ==
    /\ scanPc = "finished"
    /\ outcome.kind = "result"
    /\ ~result.is_wordpress
    /\ snet.wpjson.st = "answered"
    /\ \A f \in common_files : Settled(snet.file[f])

\* no request but the homepage GET has been issued, no detector started
OnlyHomeIssued ==
    /\ snet.wpjson = Idle
    /\ \A f \in common_files : snet.file[f] = Idle
    /\ vnet = VnetIdle /\ tnet = TnetIdle /\ pnet = PnetIdle
    /\ vpc = "off" /\ tpc = "off" /\ ppc = "off"

\* C2: if the homepage GET raises a network error or answers a non-2xx
\* status, analyze ends in failure and produces no SiteInfo, and no presence
\* check or detector probe is issued after the failed fetch.
C2_HomepageFailureIsFatal ==
    HomeFailed =>
        /\ scanPc \in {"closing", "finished"}
        /\ outcome.kind = "exception" \/ (timedOut /\ outcome.kind = "cancelled")
        /\ result = NewSiteInfo
        /\ OnlyHomeIssued
        /\ routePc = "done" => response.kind \notin {"summary", "not_wordpress"}

\* a scan has ended on a homepage that answered 500
C2_Witness ==
    /\ scanPc = "finished"
    /\ snet.home.st = "answered" /\ snet.home.status = 500
    /\ outcome.kind = "exception"

\* C3: once the homepage fetch has succeeded, analyze never fails because of
\* a follow-up probe: whatever probes raise or answer an unexpected status,
\* analyze returns a SiteInfo in which only the fields or candidates that
\* depend on the failing probes are absent.
C3_ProbeFailuresAreAbsorbed ==
    /\ outcome.kind = "exception" => HomeFailed
    /\ (scanPc = "finished" /\ HomeOk /\ ~timedOut) => outcome.kind = "result"
    /\ (outcome.kind = "result" /\ result.is_wordpress) =>
           /\ result.metadata # None
           /\ html.themes # <<>> => result.theme # None
           /\ \A s \in BagToSet(PathDetected(html)) :
                  \E p \in BagToSet(result.plugins) : p.slug = s

\* a scan has returned a WordPress result although the feed, the
\* readme.html, a plugin directory and a plugin readme.txt request all raised
C3_Witness ==
    /\ scanPc = "finished" /\ ~timedOut
    /\ outcome.kind = "result" /\ result.is_wordpress
    /\ vnet.feed.st = "failed" /\ vnet.readme.st = "failed"
    /\ \E s \in AllSlugs : pnet.deep[s].st = "failed"
    /\ \E s \in AllSlugs : pnet.preadme[s].st = "failed"

\* C4: if the homepage fetch succeeds and a downstream probe does not answer
\* before the analysis timeout expires, the scan still resolves and its
\* caller receives the timeout outcome, at whichever suspension point the
\* scan is waiting when the timeout fires.
C4_TimeoutEndsScanAsTimedOut ==
    (timedOut /\ scanPc = "finished") => outcome.kind = "cancelled"

Issued(p) == p.st # "idle"

\* C5: once the scan-level timeout has fired the scan starts no further
\* probe (a step taken after the timeout issues no request that was not
\* issued before), and the caller never receives a SiteInfo.
C5_NoProbeAfterTimeout ==
    [][timedOut =>
          /\ Issued(snet.wpjson') => Issued(snet.wpjson)
          /\ \A f \in common_files : Issued(snet.file[f]') => Issued(snet.file[f])
          /\ Issued(vnet.feed') => Issued(vnet.feed)
          /\ Issued(vnet.readme') => Issued(vnet.readme)
          /\ Issued(tnet.shot') => Issued(tnet.shot)
          /\ Issued(tnet.style') => Issued(tnet.style)
          /\ \A s \in AllSlugs :
                 /\ Issued(pnet.deep[s]') => Issued(pnet.deep[s])
                 /\ Issued(pnet.preadme[s]') => Issued(pnet.preadme[s])
          /\ \A i \in 1..MaxComments :
                 Issued(pnet.verify[i]') => Issued(pnet.verify[i])
          /\ routePc' = "done" => response'.kind = "timeout"]_vars

\* C6: when the analysis timeout expires the route answers 504 with the
\* timeout message; a homepage fetch failure or any other error never
\* produces 504 and a timeout never produces another response.
C6_TimeoutIffStatus504 ==
    routePc = "done" =>
        /\ timedOut <=> response.status = 504
        /\ timedOut <=> response.kind = "timeout"

\* C7: a homepage fetch failure reaches the caller of analyze as the fetch
\* error itself, with the HTTP status or the network reason it carries; the
\* route reports the status code of a non-2xx homepage and the reason of a
\* connection failure.
C7_FetchErrorSurfacesVerbatim ==
    /\ (scanPc = "finished" /\ outcome.kind = "exception") =>
           /\ snet.home.st = "answered" =>
                  outcome.exc = HTTPStatusError(snet.home.status)
           /\ snet.home.st = "failed" => outcome.exc = RequestError
    /\ (routePc = "done" /\ outcome.kind = "exception") =>
           /\ snet.home.st = "answered" =>
                  response.kind = "http_error" /\ response.code = snet.home.status
           /\ snet.home.st = "failed" =>
                  response.kind = "connect_error" /\ response.text = <<"connect">>

\* the generator tags of the homepage whose content matches
\* 'WordPress <version>'
MatchingGenerators ==
    { i \in DOMAIN html.gens :
        SearchWordPressVersion(GetContent(html.gens[i])) # "none" }

\* C8: if the homepage has a generator meta tag whose content matches
\* 'WordPress <version>', the version detector returns that version with
\* detected_from = 'meta_generator', whatever the ver= occurrences and
\* whatever /feed/ and /readme.html answer.
C8_GeneratorTagWins ==
    (vpc = "done" /\ MatchingGenerators # {}) =>
        /\ vres # None
        /\ vres[1].detected_from = "meta_generator"
        /\ \E i \in MatchingGenerators :
               vres[1].version = SearchWordPressVersion(GetContent(html.gens[i]))

\* a GET that answered 200 with a body the method's regex matches
GetMatched(p) == p.st = "answered" /\ p.status = 200 /\ p.body # "none"

\* the result the chain meta generator, /feed/, /readme.html, ver= majority
\* owes, given what Method 1 read and what the two GETs brought
FirstMatch ==
    IF MetaGeneratorVersion(html) # "none"
    THEN Some([version |-> MetaGeneratorVersion(html),
               detected_from |-> "meta_generator"])
    ELSE IF GetMatched(vnet.feed)
    THEN Some([version |-> vnet.feed.body, detected_from |-> "rss_feed"])
    ELSE IF GetMatched(vnet.readme)
    THEN Some([version |-> vnet.readme.body, detected_from |-> "readme_html"])
    ELSE IF html.vers # <<>>
    THEN Some([version |-> AssetVersion(html), detected_from |-> "asset_version"])
    ELSE None

\* C9: the version detector tries meta generator, GET /feed/, GET
\* /readme.html and the ver= majority strictly in this order; it returns the
\* result of the first method that matches, never issues the /feed/ GET after
\* the meta tag matched nor the /readme.html GET after meta or feed matched,
\* and never has both GETs in flight at the same time.
C9_VersionChainInOrder ==
    /\ vnet.feed.st # "idle" => MetaGeneratorVersion(html) = "none"
    /\ vnet.readme.st # "idle" =>
           /\ MetaGeneratorVersion(html) = "none"
           /\ Settled(vnet.feed)
           /\ ~GetMatched(vnet.feed)
    /\ ~(vnet.feed.st = "flight" /\ vnet.readme.st = "flight")
    /\ vpc = "done" => vres = FirstMatch
    /\ Len(vres) <= 1

\* the detector went through all four methods: both GETs were answered, the
\* feed without a match, and the readme decided
C9_Witness ==
    /\ vpc = "done"
    /\ vnet.feed.st = "answered" /\ vnet.feed.status = 200
    /\ GetMatched(vnet.readme)
    /\ html.vers # <<>>
    /\ vres[1].detected_from = "readme_html"

FirstIndex(seq, x) == CHOOSE i \in DOMAIN seq : seq[i] = x /\ \A j \in 1..(i - 1) : seq[j] # x

\* x is the most frequent value of seq and, among the values as frequent,
\* the one that occurs first
IsMajorityFirst(seq, x) ==
    /\ \E i \in DOMAIN seq : seq[i] = x
    /\ \A i \in DOMAIN seq :
           \/ Count(seq, seq[i]) < Count(seq, x)
           \/ /\ Count(seq, seq[i]) = Count(seq, x)
              /\ FirstIndex(seq, x) <= FirstIndex(seq, seq[i])

\* C10: the theme detector selects the slug with the greatest number of
\* /wp-content/themes/<slug>/ occurrences and, among the slugs with the same
\* greatest count, the one that occurs first; the asset-version fallback
\* selects the ver= value by the same rule.
C10_MajorityTiesToFirst ==
    /\ tres # None => IsMajorityFirst(html.themes, tres[1].slug)
    /\ (vres # None /\ vres[1].detected_from = "asset_version") =>
           IsMajorityFirst(html.vers, vres[1].version)

\* a theme was selected among two slugs of the same count, the selected one
\* not being the last of the page
C10_Witness ==
    /\ tpc = "done" /\ tres # None
    /\ \E x \in ThemeSlugs :
           /\ x # tres[1].slug
           /\ Count(html.themes, x) = Count(html.themes, tres[1].slug)
    /\ html.themes[Len(html.themes)] # tres[1].slug


\* C11: for every homepage, every set of probe responses and either
\* deep_scan value, the plugin list the plugin detector returns holds no two
\* entries for the same slug, also when several methods find the plugin.
C11_NoTwoEntriesPerSlug ==
    \A i \in BagToSet(pres) :
        /\ CopiesIn(i, pres) = 1
        /\ \A j \in BagToSet(pres) : i.slug = j.slug => i = j

\* a deep scan has returned an entry for akismet, which the homepage names
\* in two plugin paths and in its text and which is on the deep-scan list
C11_Witness ==
    /\ ppc = "done" /\ deep_scan
    /\ Count(html.plugins, "akismet") = 2
    /\ "akismet" \in html.text
    /\ \E i \in DOMAIN CommonChecked : CommonChecked[i] = "akismet"
    /\ \E i \in BagToSet(pres) : i.slug = "akismet"

\* what the methods that run with either deep_scan value detect: the plugin
\* paths, the indicator table and the generator tags
CheapDetected(h) ==
    AddAll(AddAll(PathDetected(h), IndicatorDetected(h)), GeneratorDetected(h))

\* the plugin list of a scan with deep_scan=false that receives the
\* answers of this scan to its readme.txt requests
ShallowPlugins == PluginInfos(ValidSlugs(CheapDetected(html)), pnet)

\* C12: for a fixed homepage and fixed server responses the plugins reported
\* with deep_scan=true are never a strict subset of those reported with
\* deep_scan=false: every plugin of the cheap methods is reported in
\* deep-scan mode too, and the deep-scan methods only add plugins.
C12_DeepScanOnlyAdds ==
    ppc = "done" =>
        /\ ~deep_scan => pres = ShallowPlugins
        /\ deep_scan =>
               \A i \in BagToSet(ShallowPlugins) :
                   /\ BagIn(i, pres)
                   /\ CopiesIn(i, ShallowPlugins) <= CopiesIn(i, pres)

\* a deep scan has returned the plugins of the cheap methods and one more
C12_Witness ==
    /\ ppc = "done" /\ deep_scan
    /\ ShallowPlugins # EmptyBag
    /\ \E i \in BagToSet(pres) : ~BagIn(i, ShallowPlugins)

\* C13: a second analyze call with the same URL and deep_scan flag, answered
\* by the target as the first one was, ends as the first one did and returns
\* the same is_wordpress, version, theme and set of plugins, whatever the
\* order in which the answers of its concurrent requests arrive
C13_RepeatedScanReturnsTheSame ==
    (served.used /\ scanPc = "finished") =>
        /\ outcome = served.outcome
        /\ outcome.kind = "result" =>
              /\ result.is_wordpress = served.result.is_wordpress
              /\ result.wordpress_version = served.result.wordpress_version
              /\ result.theme = served.result.theme
              /\ BagToSet(result.plugins) = BagToSet(served.result.plugins)

C13_Witness ==
    /\ served.used
    /\ routePc = "done"
    /\ outcome.kind = "result"
    /\ result.is_wordpress
    /\ result.theme # None
    /\ result.plugins # EmptyBag
    /\ \E s \in AllSlugs : pnet.preadme[s].st = "answered"
    /\ tnet.style.st = "answered"

\* C14: when the task of a scan has ended, by a result, a negative result,
\* a failed homepage fetch or the timeout, the client of the scan has been
\* closed
C14_ClientClosedOnEveryExit ==
    scanPc = "finished" => client = "closed"

\* C15: in a SiteInfo that analyze returns, the generator of the metadata is
\* unset or holds the content that was found; it is never the empty string
C15_NoEmptyStringForUnknown ==
    (outcome.kind = "result" /\ result.metadata # None) =>
        result.metadata[1].generator # Some(<<>>)

\* the steps from one stage of a scan to the next: the homepage GET, the
\* presence classification (with its /wp-json/ GET and its HEAD probes when
\* the HTML decides nothing), the detectors, the merge and the return
StageSteps ==
    { <<"idle", "home">>,
      <<"home", "wpjson">>, <<"home", "detect">>, <<"home", "closing">>,
      <<"wpjson", "wpfiles">>, <<"wpjson", "detect">>,
      <<"wpfiles", "detect">>, <<"wpfiles", "closing">>,
      <<"detect", "closing">>,
      <<"closing", "finished">> }

\* a detector has issued a request
DetectorProbeIssued ==
    \/ Issued(vnet.feed) \/ Issued(vnet.readme)
    \/ Issued(tnet.shot) \/ Issued(tnet.style)
    \/ \E i \in 1..MaxComments : Issued(pnet.verify[i])
    \/ \E s \in AllSlugs : Issued(pnet.deep[s]) \/ Issued(pnet.preadme[s])

\* a detector has been started
Dispatched == vpc # "off" \/ tpc # "off" \/ ppc # "off"

\* C16: a scan passes its stages in order.  The homepage is requested once,
\* when the scan starts; the stage changes only along StageSteps; the three
\* detectors are started together, in the step that classifies the site as
\* WordPress, and no detector sends a request before that or after a
\* negative classification; version, theme and plugins enter the result in
\* the step from the detectors to the return; the scan ends once, as
\* done, failed or timed out, and its outcome then stays
C16_StagesInOrder ==
    [][ /\ scanPc' # scanPc => <<scanPc, scanPc'>> \in StageSteps
        /\ (Issued(snet.home') /\ ~Issued(snet.home)) => scanPc = "idle"
        /\ Settled(snet.home) => snet.home' = snet.home
        /\ scanPc' \notin {"idle", "home"} => Settled(snet.home')
        /\ (Dispatched' /\ ~Dispatched) =>
               /\ scanPc \in {"home", "wpjson", "wpfiles"}
               /\ scanPc' = "detect"
               /\ ~result.is_wordpress /\ result'.is_wordpress
               /\ vpc' # "off" /\ tpc' # "off" /\ ppc' # "off"
        /\ DetectorProbeIssued' => (Dispatched' /\ result'.is_wordpress)
        /\ ~result'.is_wordpress => ~Dispatched'
        /\ <<result.wordpress_version, result.theme, result.plugins>>
               # <<result.wordpress_version, result.theme, result.plugins>>' =>
               (scanPc = "detect" /\ scanPc' = "closing" /\ DetectorsDone)
        /\ scanPc' = "finished" =>
               outcome'.kind \in {"result", "exception", "cancelled"}
        /\ scanPc' \notin {"closing", "finished"} => outcome'.kind = "pending"
        /\ scanPc = "finished" => (scanPc' = "finished" /\ outcome' = outcome)
      ]_vars

C16_Witness ==
    /\ routePc = "done"
    /\ outcome.kind = "result"
    /\ result.is_wordpress
    /\ Settled(snet.wpjson)
    /\ \A f \in common_files : Settled(snet.file[f])
    /\ Settled(vnet.feed)
    /\ result.plugins # EmptyBag

\* what a scan returns of the three detectors
Merged(r) == <<r.wordpress_version, r.theme, r.plugins>>

\* C17: the three detectors work on one homepage, which no step changes; a
\* step of a detector leaves the result and the variables of the other two
\* detectors as they are; version, theme and plugins enter the result in one
\* step, taken when all three detectors are done, as the values the three
\* have returned; and a scan that gets the answers of an earlier scan merges
\* the values that scan merged, in whatever order the answers arrive
C17_FanOutThenFanIn ==
    [][ /\ html' = html
        /\ (scanPc = "detect" /\ scanPc' = "detect") =>
               /\ result' = result
               /\ versionVars' # versionVars =>
                      (themeVars' = themeVars /\ pluginVars' = pluginVars)
               /\ themeVars' # themeVars =>
                      (versionVars' = versionVars /\ pluginVars' = pluginVars)
               /\ pluginVars' # pluginVars =>
                      (versionVars' = versionVars /\ themeVars' = themeVars)
        /\ (Merged(result') # Merged(result) /\ served' = served) =>
               /\ scanPc = "detect"
               /\ DetectorsDone
               /\ Merged(result') = <<vres, tres, pres>>
        /\ (served.used /\ scanPc = "detect" /\ scanPc' = "closing") =>
               Merged(result') = Merged(served.result)
      ]_vars

C17_Witness ==
    /\ served.used
    /\ scanPc = "finished"
    /\ result.wordpress_version # None
    /\ result.theme # None
    /\ result.plugins # EmptyBag
    /\ Settled(tnet.style)
    /\ \E s \in AllSlugs : Settled(pnet.deep[s])

\* Checks 1 and 2 of the presence detector: the generator tag the detector
\* reads, the first of the page, contains 'wordpress' in any letter case,
\* or the HTML contains 'wp-content' or 'wp-includes'
HtmlSaysWordpress ==
    \/ html.gens # <<>> /\ ContainsWordpress(GetContent(html.gens[1]))
    \/ html.wpc \/ html.themes # <<>> \/ html.plugins # <<>>

WpJsonHasKey ==
    /\ snet.wpjson.st = "answered"
    /\ snet.wpjson.status = 200
    /\ snet.wpjson.body \in {"namespaces", "authentication"}

\* _is_wordpress has returned
Classified ==
    \/ scanPc = "detect"
    \/ scanPc \in {"closing", "finished"} /\ outcome.kind = "result"

\* C19: when neither the generator tag nor the HTML decides, the presence
\* detector returns true if and only if /wp-json/ answered 200 with a JSON
\* body that has a 'namespaces' or 'authentication' key, or one of the three
\* HEAD probes answered 200, 302 or 403
C19_ProbesDecidePresence ==
    (HomeOk /\ ~HtmlSaysWordpress /\ Classified) =>
        (result.is_wordpress <=>
            \/ WpJsonHasKey
            \/ \E f \in common_files :
                  /\ snet.file[f].st = "answered"
                  /\ snet.file[f].status \in {200, 302, 403})

\* a GET that raised a network error or answered another status than 200
FellThrough(p) ==
    \/ p.st = "failed"
    \/ p.st = "answered" /\ p.status # 200

\* C20: a network error or a non-200 status on GET /feed/ makes the version
\* detector go on to GET /readme.html, the same on GET /readme.html makes it
\* go on to the ver= occurrences and return; when both GETs fell through,
\* the detector returns the majority ver= value with detected_from =
\* 'asset_version' if the HTML has a ver= occurrence, and no version otherwise
C20_FailedProbeFallsThrough ==
    /\ FellThrough(vnet.feed) => Issued(vnet.readme)
    /\ FellThrough(vnet.readme) => vpc = "done"
    /\ (FellThrough(vnet.feed) /\ FellThrough(vnet.readme)) =>
           vres = IF html.vers # <<>>
                  THEN Some([version |-> MostCommon(html.vers),
                             detected_from |-> "asset_version"])
                  ELSE None

C20_Witness ==
    /\ vnet.feed.st = "failed"
    /\ vnet.readme.st = "answered" /\ vnet.readme.status = 404
    /\ vnet.readme.body # "none"
    /\ html.vers # <<>>
    /\ vres # None

\* the HEAD on the plugin directory answered 200 or 403
HeadConfirms(p) == p.st = "answered" /\ (p.status = 200 \/ p.status = 403)

\* a verification probe of the slug, for a comment or for the list of the
\* common plugins, was confirmed
Confirmed(s) ==
    \/ \E i \in DOMAIN to_verify : to_verify[i] = s /\ HeadConfirms(pnet.verify[i])
    \/ HeadConfirms(pnet.deep[s])

\* the slug was a candidate subject to verification
Verified(s) ==
    \/ \E i \in DOMAIN to_verify : to_verify[i] = s
    \/ Issued(pnet.deep[s])

C22_WeakSignalsNeedDeepScan ==
    [][ /\ ~deep_scan =>
              /\ \A i \in 1..MaxComments : ~Issued(pnet.verify[i]')
              /\ \A s \in AllSlugs : ~Issued(pnet.deep[s]')
              /\ detected_slugs' \in {EmptyBag, CheapDetected(html), PathDetected(html)}
              /\ \A e \in BagToSet(pres') : BagIn(e.slug, CheapDetected(html))
        /\ \A s \in AllSlugs :
              (BagIn(s, detected_slugs') /\ ~BagIn(s, detected_slugs)) =>
                  (BagIn(s, CheapDetected(html)) \/ Confirmed(s)')
        /\ \A e \in BagToSet(pres') :
              BagIn(e.slug, CheapDetected(html)) \/ Confirmed(e.slug)
      ]_vars

C22_Witness ==
    /\ ~deep_scan
    /\ ppc = "done"
    /\ \E i \in DOMAIN html.comments :
          /\ SlugLen(html.comments[i]) > 3
          /\ ~BagIn(html.comments[i], detected_slugs)
    /\ pres # EmptyBag

\* C23: within one scan no HEAD on the directory of a plugin is sent twice:
\* not for a slug that two comments name, and not for a slug that a comment
\* names and that the list of the common plugins holds
C23_NoProbeIssuedTwice ==
    /\ \A i, j \in DOMAIN to_verify :
          (i # j /\ Issued(pnet.verify[i]) /\ Issued(pnet.verify[j])) =>
              to_verify[i] # to_verify[j]
    /\ \A i \in DOMAIN to_verify :
          Issued(pnet.verify[i]) => ~Issued(pnet.deep[to_verify[i]])

\* the readme.txt GET raised, answered another status than 200, or answered
\* 200 with an HTML page
ReadmeUnusable(p) ==
    \/ p.st = "failed"
    \/ p.st = "answered" /\ p.status # 200
    \/ p.st = "answered" /\ p.status = 200 /\ p.body = "<html>"

\* C24: when the plugin detector has returned, every slug of the detected
\* set that has at least 2 characters and matches the slug pattern has an
\* entry in the list, whatever became of its readme.txt GET; when the GET
\* raised, answered a non-200 status or an HTML page, the version and the
\* description of the entry are unset
C24_EntryKeptWithoutReadme ==
    ppc = "done" =>
        \A s \in BagToSet(detected_slugs) :
            (SlugLen(s) >= 2 /\ MatchesSlugPattern(s)) =>
                /\ \E e \in BagToSet(pres) : e.slug = s
                /\ \A e \in BagToSet(pres) :
                      (e.slug = s /\ ReadmeUnusable(pnet.preadme[s])) =>
                          (e.version = "none" /\ e.description = "none")

C24_Witness ==
    /\ ppc = "done"
    /\ \E s, t \in BagToSet(detected_slugs) :
          /\ s # t
          /\ pnet.preadme[s].st = "failed"
          /\ pnet.preadme[t].st = "answered" /\ pnet.preadme[t].status = 404
          /\ pnet.preadme[t].body = "Stable tag: 2.1 A spam filter."
          /\ \E e \in BagToSet(pres) : e.slug = s
          /\ \E e \in BagToSet(pres) : e.slug = t

\* C25: when the theme detector has returned, the theme is unset if and only
\* if the homepage has no /wp-content/themes/<slug>/ occurrence; a theme that
\* is reported carries the slug, the display name made from the slug and the
\* template URL of the slug, and when the screenshot HEAD and the style.css
\* GET both raised or answered another status than 200, its screenshot URL,
\* version and author are unset
C25_ThemeUnsetIffNoSlug ==
    tpc = "done" =>
        /\ tres = None <=> html.themes = <<>>
        /\ tres # None =>
              /\ tres[1].slug \in Range(html.themes)
              /\ tres[1].name = DisplayName(tres[1].slug)
              /\ tres[1].template_url =
                     [dir |-> "/wp-content/themes/", slug |-> tres[1].slug, file |-> ""]
              /\ (FellThrough(tnet.shot) /\ FellThrough(tnet.style)) =>
                     /\ tres[1].screenshot_url = NoUrl
                     /\ tres[1].version = "none"
                     /\ tres[1].author = "none"

C25_Witness ==
    /\ tpc = "done"
    /\ tres # None
    /\ tnet.shot.st = "failed"
    /\ tnet.style.st = "answered" /\ tnet.style.status = 404
    /\ tnet.style.body = "Version: 1.2 Author: Jo"

\* C26: every entry the plugin detector returns was made for a slug of at
\* least 2 characters that matches ^[a-z0-9\-_]+$; a detected slug that is
\* shorter or does not match has no entry, whatever method found it
C26_OnlyValidSlugsReported ==
    /\ \A e \in BagToSet(pres) :
          SlugLen(e.slug) >= 2 /\ MatchesSlugPattern(e.slug)
    /\ \A s \in AllSlugs :
          (SlugLen(s) < 2 \/ ~MatchesSlugPattern(s)) =>
              /\ ~Issued(pnet.preadme[s])
              /\ \A e \in BagToSet(pres) : e.slug # s

C26_Witness ==
    /\ ppc = "done"
    /\ BagIn("hello.php", detected_slugs)
    /\ BagIn("x", detected_slugs)
    /\ pres # EmptyBag

\* C27: when the readme.txt GET of a plugin answers 200 with a body that
\* begins with '<!doctype' or '<html', the entry of the plugin is in the list
\* and has neither version nor description
C27_HtmlReadmeIsSkipped ==
    ppc = "done" =>
        \A s \in AllSlugs :
            (pnet.preadme[s].st = "answered" /\ pnet.preadme[s].status = 200
                /\ pnet.preadme[s].body = "<html>") =>
                /\ \E e \in BagToSet(pres) : e.slug = s
                /\ \A e \in BagToSet(pres) :
                      e.slug = s =>
                          (e.name = PluginName(s) /\ e.version = "none"
                              /\ e.description = "none")

C27_Witness ==
    /\ ppc = "done"
    /\ \E s \in AllSlugs :
          /\ pnet.preadme[s].st = "answered" /\ pnet.preadme[s].status = 200
          /\ pnet.preadme[s].body = "<html>"
          /\ \E e \in BagToSet(pres) : e.slug = s
    /\ \E e \in BagToSet(pres) : e.version # "none"

\* C28: the route handler answers every scan that has ended, whatever its
\* outcome.  The answer has success = true exactly when the scan returned a
\* SiteInfo with is_wordpress = true; a negative classification and every
\* error have success = false; the status is 504 only when the analysis
\* timeout has expired, and 200 otherwise
C28_EveryOutcomeIsAnswered ==
    /\ routePc = "done" <=> response # NoResponse
    /\ routePc = "done" =>
          /\ scanPc = "finished"
          /\ response.status \in {200, 504}
          /\ response.success <=> (outcome.kind = "result" /\ result.is_wordpress)
          /\ (outcome.kind = "result" /\ ~result.is_wordpress) =>
                 (response.kind = "not_wordpress" /\ response.status = 200)
          /\ outcome.kind = "exception" =>
                 (~response.success /\ response.status = 200)
          /\ response.status = 504 => (timedOut /\ outcome.kind = "cancelled")

C28_Witness ==
    /\ routePc = "done"
    /\ response.status = 504
    /\ ~response.success
    /\ result.is_wordpress

\* the key under which an input is reported: the filename of an upload
\* (`or "unknown"`), the URL of a download
KeyOf(input) ==
    IF endpoint = "attachments" /\ input.src = NoName
    THEN UnknownName
    ELSE input.src

DistinctKeys ==
    \A i, j \in 1..Len(inputs) : i # j => KeyOf(inputs[i]) # KeyOf(inputs[j])

\* the batch got past the two checks of the request
BatchAccepted == inputs # <<>> /\ openrouter_api_key

\* C29: in /summarize/attachments and /summarize/urls the failure of one item
\* never aborts the batch: an accepted batch is answered with the batch
\* response, for inputs with pairwise distinct keys every input is in
\* exactly one of results and errors, and success is true iff errors is empty
C29_ItemFailureNeverAbortsBatch ==
    (batchPc = "done" /\ BatchAccepted) =>
        /\ batch_response.status = 200
        /\ DistinctKeys =>
              \A i \in 1..Len(inputs) :
                 (KeyOf(inputs[i]) \in DOMAIN batch_response.results)
                    # (KeyOf(inputs[i]) \in DOMAIN batch_response.errors)
        /\ batch_response.success <=> (batch_response.errors = EmptyDict)

\* C30: every temporary file created by a document or video operation is
\* deleted on every exit path of the operation that created it: a file in
\* the temp directory belongs to the operation that is still running
C30_TempFilesDeletedOnEveryExit ==
    \A f \in disk : Running /\ f.job = job

=============================================================================
